---- MODULE Spec2Model ----
(***************************************************************************)
(* Local-first mutation layer of the Housekeeping app.                     *)
(*                                                                         *)
(* Spec       : the shopping list of ShoppingPage (optimistic create,      *)
(*              toggle, remove, clearChecked, reload, change stream).      *)
(* SpecToggle : the shopping list with toggles only and no reload.         *)
(* SpecPantry : the debounced pantry edits of ShoppingPage.                *)
(* SpecTodos  : the mount effect and the handlers of TodosPage.            *)
(* SpecEconomy: the mount effect and the handlers of EconomyPage.          *)
(* SpecSettle : the balances and settlements EconomyPage derives from its  *)
(*              members and expenses.                                      *)
(* SpecMove   : moveToPantry of ShoppingPage with both reloads.            *)
(* SpecEvents : the events section of TasksEventsPage.                     *)
(*                                                                         *)
(* Every remote call is two steps: the store executes the request, then    *)
(* the response is delivered and the continuation after `await` runs.      *)
(*                                                                         *)
(* Assumptions.  The component re-renders between any two steps, so a      *)
(* handler closes over the state current when it starts (the freshest      *)
(* value `const snapshot = shopping` can hold).  The store's rows change   *)
(* only through this member's requests; a change notification carries no   *)
(* payload and only triggers a reload.  Requests of different handlers     *)
(* may be executed and answered in any order.  After the cleanup of a      *)
(* mount effect the suspended continuations still run and call the state   *)
(* setters wherever the code does not test its alive flag.                 *)
(***************************************************************************)
EXTENDS Integers, Sequences, FiniteSets, TLC

VARIABLES
    userId,       \* useState userId
    householdId,  \* useState householdId
    loading,      \* useState loading
    initPc,       \* position of init() inside the mount effect
    chShop,       \* TRUE once the shopping change channel is subscribed
    shopping,     \* useState shopping: the local collection
    msg,          \* useState msg: the last-error observable
    ops,          \* operations suspended at an await, one per slot
    remote,       \* rows of table shopping_items of the household
    nextTemp,     \* number of temporary ids generated so far
    nextId,       \* number of ids the store has generated so far
    notif,        \* change notifications emitted and not yet delivered
    nops,         \* handlers started so far by this member
    serverIdOf,   \* history: temporary id -> id the store gave that insert
    resolved,     \* history: temporary ids whose insert response arrived
    confirmed,    \* history: ids whose delete was confirmed to the client
    loaded,       \* history: rows delivered by the latest reload
    last,         \* history: the step just taken
    pantry,       \* useState pantry: the local pantry collection
    remotePantry, \* rows of table pantry_items of the household
    timers,       \* pending window.setTimeout callbacks
    pantryTimers, \* useRef pantryTimers: record id -> latest timer handle
    nextTimer,    \* number of timer handles handed out so far
    upd,          \* pantry requests suspended at their await
    pnotif,       \* pantry change notifications not yet delivered
    nedits,       \* onChange events handled so far
    dirty,        \* history: fields changed locally since the last remote write
    burst,        \* history: the patches of the current run of rapid calls
    issued,       \* history: the remote updates issued for that run
    alive,        \* let alive of the mount effect: FALSE once the cleanup ran
    chPantry,     \* TRUE once the pantry change channel is subscribed
    tdMounted,    \* TodosPage: mounted, its effect cleanup has not run
    tdPc,         \* TodosPage: position of init() inside the mount effect
    channel,      \* TodosPage: let channel of the mount effect
    tdSubs,       \* subscriptions to todos:hid open at the client
    tdUserId,     \* TodosPage: useState userId
    tdHouseholdId, \* TodosPage: useState householdId
    todos,        \* TodosPage: useState todos
    tdMsg,        \* TodosPage: useState msg
    tdReqs,       \* TodosPage: requests suspended at their await
    tdSeq,        \* TodosPage: number of requests issued so far
    tdOps,        \* TodosPage: handlers started so far
    tdNotif,      \* change notifications of household_todos not yet delivered
    remoteTodos,  \* rows of table household_todos, in creation order
    ecAlive,      \* EconomyPage: let alive of the mount effect
    ecPc,         \* EconomyPage: position of init() inside the mount effect
    ch,           \* EconomyPage: let ch of the mount effect
    ecSubs,       \* subscriptions to economy:hid open at the client
    ecUserId,     \* EconomyPage: useState userId
    ecHouseholdId, \* EconomyPage: useState householdId
    members,      \* EconomyPage: useState members
    expenses,     \* EconomyPage: useState expenses
    ecMsg,        \* EconomyPage: useState msg
    ecLoading,    \* EconomyPage: useState loading
    ecReqs,       \* EconomyPage: requests suspended at their await
    ecSeq,        \* EconomyPage: number of requests issued so far
    ecOps,        \* EconomyPage: handlers started so far
    ecNotif,      \* change notifications of expenses not yet delivered
    ecNextId,     \* number of ids the store has generated for expenses
    remoteExpenses, \* rows of table expenses, in creation order
    unhandled,    \* promise rejections that no handler caught
    memo,         \* EconomyPage: which of the memoised values of the render are computed
    balances,     \* EconomyPage: useMemo balances
    settlements,  \* EconomyPage: useMemo settlements
    events,       \* TasksEventsPage: useState events
    evMsg,        \* TasksEventsPage: useState msg
    eventTimers,  \* TasksEventsPage: useRef eventTimers: record id -> pending patch
    evReqs,       \* TasksEventsPage: requests suspended at their await
    evSeq,        \* TasksEventsPage: number of requests issued so far
    evOps,        \* TasksEventsPage: handlers started so far
    evNotif,      \* change notifications of important_events not yet delivered
    evNextId,     \* number of ids the store has generated for important_events
    remoteEvents, \* rows of table important_events of the household
    evLast        \* history: the step just taken on the events view

shopVars == <<userId, householdId, loading, initPc, chShop, shopping, msg, ops,
              remote, nextTemp, nextId, notif, nops, serverIdOf,
              resolved, confirmed, loaded, last>>
pantryVars == <<pantry, remotePantry, timers, pantryTimers, nextTimer, upd,
                pnotif, nedits, dirty, burst, issued>>
\* the variables of the shopping list that the pantry handlers leave alone
shopRest == <<userId, householdId, loading, initPc, chShop, shopping, ops, remote,
              nextTemp, nextId, notif, nops, serverIdOf, resolved, confirmed, loaded>>
\* the mount effect's flag and the second channel
lifeVars == <<alive, chPantry>>
todoVars == <<tdMounted, tdPc, channel, tdSubs, tdUserId, tdHouseholdId, todos, tdMsg,
              tdReqs, tdSeq, tdOps, tdNotif, remoteTodos>>
ecoVars == <<ecAlive, ecPc, ch, ecSubs, ecUserId, ecHouseholdId, members, expenses, ecMsg,
             ecLoading, ecReqs, ecSeq, ecOps, ecNotif, ecNextId, remoteExpenses, unhandled>>
\* the variables of the other views
\* the values EconomyPage derives from members and expenses when it renders
settleVars == <<memo, balances, settlements>>
\* the events section of TasksEventsPage
evVars == <<events, evMsg, eventTimers, evReqs, evSeq, evOps, evNotif, evNextId,
            remoteEvents, evLast>>
outerVars == <<todoVars, ecoVars, settleVars, evVars>>
\* the variables the handlers of TodosPage leave alone
notTodo == <<shopVars, pantryVars, lifeVars, ecoVars, settleVars, evVars>>
\* the variables the handlers of EconomyPage leave alone; the derived values are
\* followed in SpecSettle only
notEco == <<shopVars, pantryVars, lifeVars, todoVars, settleVars, evVars>>
vars == <<shopVars, pantryVars, lifeVars, outerVars>>

----------------------------------------------------------------------------
(* Bounds *)

InitItems == 2
MaxInFlight == 2
MaxNotif == 1
MaxOps == 2
PantryItems == 1
MaxEdits == 2
TodoItems == 2
MaxTodoOps == 1
ExpenseItems == 1
MaxEcoOps == 1
MaxMembers == 3
MaxLedger == 2
EventItems == 2
MaxInstant == 3
MaxEvOps == 1
MaxEvNotif == 1

----------------------------------------------------------------------------
(* Values *)

Null == "null"
Uid == "u1"
Hid == "h1"
Rejected == "rejected"
NotLoggedIn == "Inte inloggad."
NoHousehold == "Du har inget hushall annu."

TempId(n) == <<"temp", n>>
ServerId(n) == <<"srv", n>>
NoId == <<"none", 0>>
IsTemp(id) == id[1] = "temp"

\* what the user may have typed in the shopping input
Inputs == {<<>>, <<" ">>, <<"a">>, <<" ", "a", " ">>}

RECURSIVE TrimLeft(_)
TrimLeft(s) == IF s # <<>> /\ Head(s) = " " THEN TrimLeft(Tail(s)) ELSE s

RECURSIVE TrimRight(_)
TrimRight(s) ==
    IF s # <<>> /\ s[Len(s)] = " " THEN TrimRight(SubSeq(s, 1, Len(s) - 1)) ELSE s

Trim(s) == TrimRight(TrimLeft(s))

Range(s) == {s[i] : i \in DOMAIN s}
Ids(s) == {s[i].id : i \in DOMAIN s}

Filter(s, keep(_)) == SelectSeq(s, keep)

Map(s, f(_)) == [i \in DOMAIN s |-> f(s[i])]

NoItem == [id |-> NoId, text |-> <<>>, checked |-> FALSE]

Idle == [kind |-> "idle", stage |-> "none", item |-> NoItem, ids |-> {},
         snap |-> <<>>, pre |-> <<>>, ok |-> TRUE, data |-> <<>>,
         clean |-> TRUE, stale |-> FALSE]

Slots == 1 .. MaxInFlight
FreeSlots == {s \in Slots : ops[s].kind = "idle"}
HasFree == FreeSlots # {}
Free == CHOOSE s \in FreeSlots : \A t \in FreeSlots : s <= t

\* history bookkeeping: another step of the client touched the collection
Interleave(o, reloaded) ==
    IF o.kind = "idle" THEN o
    ELSE [o EXCEPT !.clean = FALSE, !.stale = o.stale \/ reloaded]

Touch(s, o, reloaded) ==
    [t \in Slots |-> IF t = s THEN o ELSE Interleave(ops[t], reloaded)]

Step(a, o) == [act |-> a, ok |-> o.ok, clean |-> o.clean, stale |-> o.stale]

----------------------------------------------------------------------------
(* The state updates of the handlers, as the functions passed to setShopping *)

\* addShopping: setShopping((prev) => [...prev, { id: tempId, text: t, checked: false }])
AddOptimistic(prev, rec) == Append(prev, rec)

\* a replacement that matches the unconfirmed records by their content
AddReplaceByText(prev, tempId, row) ==
    LET f(x) == IF IsTemp(x.id) /\ x.text = row.text THEN row ELSE x IN Map(prev, f)

\* addShopping: setShopping((prev) => prev.map((x) => (x.id === tempId ? data : x)))
AddReplace(prev, tempId, row) ==
    LET f(x) == IF x.id = tempId THEN row ELSE x IN Map(prev, f)

\* a rollback that drops the last record, whichever it is
AddRollbackLast(prev, tempId) == SubSeq(prev, 1, Len(prev) - 1)

\* a rollback that forgets to drop the temporary record
AddRollbackKeeps(prev, tempId) == prev

\* addShopping: setShopping((prev) => prev.filter((x) => x.id !== tempId))
AddRollback(prev, tempId) ==
    LET keep(x) == x.id # tempId IN Filter(prev, keep)

\* toggleShopping: prev.map((x) => (x.id === item.id ? { ...x, checked: !x.checked } : x))
ToggleApply(prev, item) ==
    LET f(x) == IF x.id = item.id THEN [x EXCEPT !.checked = ~x.checked] ELSE x
    IN Map(prev, f)

\* toggleShopping: prev.map((x) => (x.id === item.id ? { ...x, checked: item.checked } : x))
ToggleRevert(prev, item) ==
    LET f(x) == IF x.id = item.id THEN [x EXCEPT !.checked = item.checked] ELSE x
    IN Map(prev, f)

\* removeShopping: setShopping((prev) => prev.filter((x) => x.id !== item.id))
RemoveApply(prev, item) ==
    LET keep(x) == x.id # item.id IN Filter(prev, keep)

\* a rollback that puts the missing records back at the end
RemoveRollbackAtEnd(prev, snapshot) ==
    LET missing(x) == x.id \notin Ids(prev) IN prev \o Filter(snapshot, missing)

\* removeShopping, clearChecked: setShopping(snapshot)
RemoveRollback(prev, snapshot) == snapshot

\* a filter with the test the wrong way round
ClearKeepsChecked(prev) ==
    LET keep(x) == x.checked IN Filter(prev, keep)

\* clearChecked: setShopping((prev) => prev.filter((x) => !x.checked))
ClearApply(prev) ==
    LET keep(x) == ~x.checked IN Filter(prev, keep)

\* a reload that keeps the local temporary-id records
LoadKeepsTemps(prev, data) ==
    LET temp(x) == IsTemp(x.id) IN data \o Filter(prev, temp)

\* loadShopping: setShopping((data ?? []) as ShoppingItem[])
LoadApply(prev, data) == data

----------------------------------------------------------------------------
(* Initial state: the component has just been constructed, init() is about  *)
(* to call getUser; the store already holds the household's rows.           *)

InitRows ==
    [i \in 1 .. InitItems |-> [id |-> ServerId(i), text |-> <<"a">>, checked |-> (i % 2 = 0)]]

ShopInit ==
    /\ userId = Null
    /\ householdId = Null
    /\ loading = TRUE
    /\ initPc = "getUser"
    /\ chShop = FALSE
    /\ shopping = <<>>
    /\ msg = Null
    /\ ops = [s \in Slots |-> Idle]
    /\ remote = InitRows
    /\ nextTemp = 0
    /\ nextId = InitItems
    /\ notif = 0
    /\ nops = 0
    /\ serverIdOf = [n \in 1 .. MaxOps |-> NoId]
    /\ resolved = {}
    /\ confirmed = {}
    /\ loaded = <<>>
    /\ last = Step("Init", Idle)

PantryIds == {ServerId(n) : n \in 1 .. PantryItems}

PantryIdle ==
    /\ pantry = <<>>
    /\ remotePantry = <<>>
    /\ timers = {}
    /\ pantryTimers = [id \in PantryIds |-> 0]
    /\ nextTimer = 0
    /\ upd = {}
    /\ pnotif = 0
    /\ nedits = 0
    /\ dirty = [id \in PantryIds |-> {}]
    /\ burst = [id \in PantryIds |-> <<>>]
    /\ issued = [id \in PantryIds |-> <<>>]
    /\ chPantry = FALSE

\* TodosPage is not mounted
TodosAbsent ==
    /\ tdMounted = FALSE
    /\ tdPc = "halt"
    /\ channel = Null
    /\ tdSubs = 0
    /\ tdUserId = Null
    /\ tdHouseholdId = Null
    /\ todos = <<>>
    /\ tdMsg = Null
    /\ tdReqs = {}
    /\ tdSeq = 0
    /\ tdOps = 0
    /\ tdNotif = 0
    /\ remoteTodos = <<>>

\* nothing has been derived from members and expenses
SettleIdle ==
    /\ memo = "none"
    /\ balances = <<>>
    /\ settlements = <<>>

\* EconomyPage is not mounted
EcoAbsent ==
    /\ SettleIdle
    /\ ecAlive = FALSE
    /\ ecPc = "halt"
    /\ ch = Null
    /\ ecSubs = 0
    /\ ecUserId = Null
    /\ ecHouseholdId = Null
    /\ members = <<>>
    /\ expenses = <<>>
    /\ ecMsg = Null
    /\ ecLoading = TRUE
    /\ ecReqs = {}
    /\ ecSeq = 0
    /\ ecOps = 0
    /\ ecNotif = 0
    /\ ecNextId = 0
    /\ remoteExpenses = <<>>
    /\ unhandled = 0

\* the events section of TasksEventsPage is not mounted
EventIds == {ServerId(n) : n \in 1 .. EventItems + MaxEvOps} \cup {TempId(n) : n \in 1 .. MaxEvOps}

\* no patch is waiting for its timeout
NoPatch == [field |-> Null, title |-> "", starts_at |-> [t |-> 0, zone |-> "Z"]]

EventsAbsent ==
    /\ events = <<>>
    /\ evMsg = Null
    /\ eventTimers = [id \in EventIds |-> NoPatch]
    /\ evReqs = {}
    /\ evSeq = 0
    /\ evOps = 0
    /\ evNotif = 0
    /\ evNextId = 0
    /\ remoteEvents = {}
    /\ evLast = [act |-> "none", moved |-> FALSE]

\* the other views are not mounted
OuterIdle == TodosAbsent /\ EcoAbsent /\ EventsAbsent

Init == ShopInit /\ PantryIdle /\ alive = TRUE /\ OuterIdle

----------------------------------------------------------------------------
(* init() of the mount effect *)

\* const { data: userRes } = await supabase.auth.getUser(); if (!uid) ...
GetUserDone ==
    /\ initPc = "getUser"
    /\ \/ /\ IF alive
                THEN msg' = NotLoggedIn /\ loading' = FALSE
                ELSE UNCHANGED <<msg, loading>>
          /\ initPc' = "halt"
          /\ UNCHANGED userId
       \/ /\ userId' = Uid
          /\ initPc' = "memberships"
          /\ UNCHANGED <<msg, loading>>
    /\ last' = Step("GetUserDone", Idle)
    /\ UNCHANGED <<householdId, chShop, shopping, ops, remote, nextTemp, nextId,
                   notif, nops, serverIdOf, resolved, confirmed, loaded>>
    /\ UNCHANGED <<pantryVars, lifeVars, outerVars>>

\* the memberships select resolves; on a household id the two loads are issued
MembershipsDone ==
    /\ initPc = "memberships"
    /\ \/ /\ ~alive
          /\ initPc' = "halt"
          /\ UNCHANGED <<msg, loading, householdId, ops>>
       \/ /\ alive
          /\ msg' = Rejected
          /\ loading' = FALSE
          /\ initPc' = "halt"
          /\ UNCHANGED <<householdId, ops>>
       \/ /\ alive
          /\ msg' = NoHousehold
          /\ loading' = FALSE
          /\ initPc' = "halt"
          /\ UNCHANGED <<householdId, ops>>
       \/ /\ alive
          /\ householdId' = Hid
          /\ initPc' = "load"
          /\ ops' = [ops EXCEPT ![Free] = [Idle EXCEPT !.kind = "load", !.stage = "sent"]]
          /\ UNCHANGED <<msg, loading>>
    /\ last' = Step("MembershipsDone", Idle)
    /\ UNCHANGED <<userId, chShop, shopping, remote, nextTemp, nextId,
                   notif, nops, serverIdOf, resolved, confirmed, loaded>>
    /\ UNCHANGED <<pantryVars, lifeVars, outerVars>>

----------------------------------------------------------------------------
(* loadShopping *)

\* the change channel callback: () => loadShopping(hid)
NotifyDeliver ==
    /\ chShop
    /\ notif > 0
    /\ HasFree
    /\ notif' = notif - 1
    /\ ops' = [ops EXCEPT ![Free] = [Idle EXCEPT !.kind = "load", !.stage = "sent"]]
    /\ last' = Step("NotifyDeliver", Idle)
    /\ UNCHANGED <<userId, householdId, loading, initPc, chShop, shopping, msg,
                   remote, nextTemp, nextId, nops, serverIdOf, resolved,
                   confirmed, loaded>>
    /\ UNCHANGED <<pantryVars, lifeVars, outerVars>>

\* the store answers the select: the rows in creation order, or an error
ServerSelect(s) ==
    /\ ops[s].kind = "load"
    /\ ops[s].stage = "sent"
    /\ \E ok \in BOOLEAN :
          ops' = [ops EXCEPT ![s] = [@ EXCEPT !.stage = "resp", !.ok = ok,
                                               !.data = IF ok THEN remote ELSE <<>>]]
    /\ last' = Step("Server", Idle)
    /\ UNCHANGED <<userId, householdId, loading, initPc, chShop, shopping, msg,
                   remote, nextTemp, nextId, notif, nops, serverIdOf, resolved,
                   confirmed, loaded>>
    /\ UNCHANGED <<pantryVars, lifeVars, outerVars>>

\* if (error) setMsg(error.message); else setShopping(data); then, when this
\* is the load init() awaits, the channels are subscribed and loading ends
LoadDone(s) ==
    /\ ops[s].kind = "load"
    /\ ops[s].stage = "resp"
    /\ IF ops[s].ok
          THEN /\ shopping' = LoadApply(shopping, ops[s].data)
               /\ loaded' = ops[s].data
               /\ UNCHANGED msg
          ELSE /\ msg' = Rejected
               /\ UNCHANGED <<shopping, loaded>>
    /\ ops' = Touch(s, Idle, ops[s].ok)
    /\ IF initPc = "load"
          THEN IF alive
               THEN /\ chShop' = TRUE
                    /\ chPantry' = TRUE
                    /\ loading' = FALSE
                    /\ initPc' = "ready"
               ELSE /\ initPc' = "halt"
                    /\ UNCHANGED <<chShop, chPantry, loading>>
          ELSE UNCHANGED <<chShop, chPantry, loading, initPc>>
    /\ last' = Step("LoadDone", ops[s])
    /\ UNCHANGED <<userId, householdId, remote, nextTemp, nextId, notif, nops,
                   serverIdOf, resolved, confirmed>>
    /\ UNCHANGED <<pantryVars, alive, outerVars>>

----------------------------------------------------------------------------
(* The store: table shopping_items and its change stream *)

\* a committed write is announced on the channel once the view has subscribed
CanEmit == ~chShop \/ notif < MaxNotif
Emit == IF chShop THEN notif + 1 ELSE notif

TempNo(id) == id[2]

\* .insert({ household_id, text, created_by }).select("id,text,checked").single()
ServerInsert(s) ==
    /\ ops[s].kind = "add"
    /\ ops[s].stage = "sent"
    /\ \/ /\ ops' = [ops EXCEPT ![s] = [@ EXCEPT !.stage = "resp", !.ok = FALSE]]
          /\ UNCHANGED <<remote, nextId, notif, serverIdOf>>
       \/ /\ CanEmit
          /\ LET row == [id |-> ServerId(nextId + 1), text |-> ops[s].item.text,
                         checked |-> FALSE]
             IN /\ remote' = Append(remote, row)
                /\ ops' = [ops EXCEPT ![s] = [@ EXCEPT !.stage = "resp", !.ok = TRUE,
                                                     !.data = <<row>>]]
                /\ serverIdOf' = [serverIdOf EXCEPT ![TempNo(ops[s].item.id)] = row.id]
          /\ nextId' = nextId + 1
          /\ notif' = Emit
    /\ last' = Step("Server", Idle)
    /\ UNCHANGED <<userId, householdId, loading, initPc, chShop, shopping, msg,
                   nextTemp, nops, resolved, confirmed, loaded>>
    /\ UNCHANGED <<pantryVars, lifeVars, outerVars>>

\* .update({ checked: !item.checked }).eq("id", item.id)
ServerUpdate(s) ==
    /\ ops[s].kind = "toggle"
    /\ ops[s].stage = "sent"
    /\ \/ /\ ops' = [ops EXCEPT ![s] = [@ EXCEPT !.stage = "resp", !.ok = FALSE]]
          /\ UNCHANGED <<remote, notif>>
       \/ /\ ops' = [ops EXCEPT ![s] = [@ EXCEPT !.stage = "resp", !.ok = TRUE]]
          /\ IF ops[s].item.id \in Ids(remote)
                THEN /\ CanEmit
                     /\ LET f(x) == IF x.id = ops[s].item.id
                                    THEN [x EXCEPT !.checked = ~ops[s].item.checked]
                                    ELSE x
                        IN remote' = Map(remote, f)
                     /\ notif' = Emit
                ELSE UNCHANGED <<remote, notif>>
    /\ last' = Step("Server", Idle)
    /\ UNCHANGED <<userId, householdId, loading, initPc, chShop, shopping, msg,
                   nextTemp, nextId, nops, serverIdOf, resolved, confirmed, loaded>>
    /\ UNCHANGED <<pantryVars, lifeVars, outerVars>>

\* .delete().eq("id", item.id)   and   .delete().in("id", checkedIds)
ServerDelete(s) ==
    /\ ops[s].kind \in {"remove", "clear"}
    /\ ops[s].stage = "sent"
    /\ \/ /\ ops' = [ops EXCEPT ![s] = [@ EXCEPT !.stage = "resp", !.ok = FALSE]]
          /\ UNCHANGED <<remote, notif>>
       \/ /\ ops' = [ops EXCEPT ![s] = [@ EXCEPT !.stage = "resp", !.ok = TRUE]]
          /\ IF ops[s].ids \cap Ids(remote) # {}
                THEN /\ CanEmit
                     /\ LET keep(x) == x.id \notin ops[s].ids
                        IN remote' = Filter(remote, keep)
                     /\ notif' = Emit
                ELSE UNCHANGED <<remote, notif>>
    /\ last' = Step("Server", Idle)
    /\ UNCHANGED <<userId, householdId, loading, initPc, chShop, shopping, msg,
                   nextTemp, nextId, nops, serverIdOf, resolved, confirmed, loaded>>
    /\ UNCHANGED <<pantryVars, lifeVars, outerVars>>

----------------------------------------------------------------------------
(* addShopping *)

AddShopping(txt) ==
    /\ alive
    /\ ~loading
    /\ msg' = Null
    /\ LET t == Trim(txt) IN
       IF t = <<>> \/ householdId = Null \/ userId = Null
       THEN /\ last' = Step(IF t = <<>> THEN "AddEmpty" ELSE "AddNoop", Idle)
            /\ UNCHANGED <<shopping, ops, nextTemp, nops>>
       ELSE /\ nops < MaxOps
            /\ nops' = nops + 1
            /\ HasFree
            /\ LET rec == [id |-> TempId(nextTemp + 1), text |-> t, checked |-> FALSE]
                   o == [Idle EXCEPT !.kind = "add", !.stage = "sent", !.item = rec,
                                     !.pre = shopping]
               IN /\ shopping' = AddOptimistic(shopping, rec)
                  /\ ops' = Touch(Free, o, FALSE)
                  /\ last' = Step("AddShopping", o)
            /\ nextTemp' = nextTemp + 1
    /\ UNCHANGED <<userId, householdId, loading, initPc, chShop, remote, nextId,
                   notif, serverIdOf, resolved, confirmed, loaded>>
    /\ UNCHANGED <<pantryVars, lifeVars, outerVars>>

AddDone(s) ==
    /\ ops[s].kind = "add"
    /\ ops[s].stage = "resp"
    /\ IF ~ops[s].ok
          THEN /\ msg' = Rejected
               /\ shopping' = AddRollback(shopping, ops[s].item.id)
          ELSE /\ shopping' = AddReplace(shopping, ops[s].item.id, ops[s].data[1])
               /\ UNCHANGED msg
    /\ resolved' = resolved \cup {ops[s].item.id}
    /\ ops' = Touch(s, Idle, FALSE)
    /\ last' = Step("AddDone", ops[s])
    /\ UNCHANGED <<userId, householdId, loading, initPc, chShop, remote, nextTemp,
                   nextId, notif, nops, serverIdOf, confirmed, loaded>>
    /\ UNCHANGED <<pantryVars, lifeVars, outerVars>>

----------------------------------------------------------------------------
(* toggleShopping *)

ToggleShopping(i) ==
    /\ alive
    /\ ~loading
    /\ HasFree
    /\ nops < MaxOps
    /\ nops' = nops + 1
    /\ LET o == [Idle EXCEPT !.kind = "toggle", !.stage = "sent", !.item = shopping[i]]
       IN /\ ops' = Touch(Free, o, FALSE)
          /\ last' = Step("ToggleShopping", o)
    /\ msg' = Null
    /\ shopping' = ToggleApply(shopping, shopping[i])
    /\ UNCHANGED <<userId, householdId, loading, initPc, chShop, remote, nextTemp,
                   nextId, notif, serverIdOf, resolved, confirmed, loaded>>
    /\ UNCHANGED <<pantryVars, lifeVars, outerVars>>

ToggleDone(s) ==
    /\ ops[s].kind = "toggle"
    /\ ops[s].stage = "resp"
    /\ IF ~ops[s].ok
          THEN /\ msg' = Rejected
               /\ shopping' = ToggleRevert(shopping, ops[s].item)
          ELSE UNCHANGED <<msg, shopping>>
    /\ ops' = Touch(s, Idle, FALSE)
    /\ last' = Step("ToggleDone", ops[s])
    /\ UNCHANGED <<userId, householdId, loading, initPc, chShop, remote, nextTemp,
                   nextId, notif, nops, serverIdOf, resolved, confirmed, loaded>>
    /\ UNCHANGED <<pantryVars, lifeVars, outerVars>>

----------------------------------------------------------------------------
(* removeShopping, clearChecked *)

RemoveShopping(i) ==
    /\ alive
    /\ ~loading
    /\ HasFree
    /\ nops < MaxOps
    /\ nops' = nops + 1
    /\ LET o == [Idle EXCEPT !.kind = "remove", !.stage = "sent", !.item = shopping[i],
                             !.ids = {shopping[i].id}, !.snap = shopping]
       IN /\ ops' = Touch(Free, o, FALSE)
          /\ last' = Step("RemoveShopping", o)
    /\ msg' = Null
    /\ shopping' = RemoveApply(shopping, shopping[i])
    /\ UNCHANGED <<userId, householdId, loading, initPc, chShop, remote, nextTemp,
                   nextId, notif, serverIdOf, resolved, confirmed, loaded>>
    /\ UNCHANGED <<pantryVars, lifeVars, outerVars>>

CheckedIds == {shopping[i].id : i \in {j \in DOMAIN shopping : shopping[j].checked}}

ClearChecked ==
    /\ alive
    /\ ~loading
    /\ msg' = Null
    /\ IF householdId = Null \/ CheckedIds = {}
          THEN /\ last' = Step("ClearNoop", Idle)
               /\ UNCHANGED <<shopping, ops, nops>>
          ELSE /\ HasFree
               /\ nops < MaxOps
               /\ nops' = nops + 1
               /\ LET o == [Idle EXCEPT !.kind = "clear", !.stage = "sent",
                                        !.ids = CheckedIds, !.snap = shopping]
                  IN /\ ops' = Touch(Free, o, FALSE)
                     /\ last' = Step("ClearChecked", o)
               /\ shopping' = ClearApply(shopping)
    /\ UNCHANGED <<userId, householdId, loading, initPc, chShop, remote, nextTemp,
                   nextId, notif, serverIdOf, resolved, confirmed, loaded>>
    /\ UNCHANGED <<pantryVars, lifeVars, outerVars>>

\* the continuation of removeShopping and of clearChecked after the delete
RemoveDone(s) ==
    /\ ops[s].kind \in {"remove", "clear"}
    /\ ops[s].stage = "resp"
    /\ IF ~ops[s].ok
          THEN /\ msg' = Rejected
               /\ shopping' = RemoveRollback(shopping, ops[s].snap)
               /\ UNCHANGED confirmed
          ELSE /\ confirmed' = confirmed \cup ops[s].ids
               /\ UNCHANGED <<msg, shopping>>
    /\ ops' = Touch(s, Idle, FALSE)
    /\ last' = Step(IF ops[s].kind = "clear" THEN "ClearDone" ELSE "RemoveDone", ops[s])
    /\ UNCHANGED <<userId, householdId, loading, initPc, chShop, remote, nextTemp,
                   nextId, notif, nops, serverIdOf, resolved, loaded>>
    /\ UNCHANGED <<pantryVars, lifeVars, outerVars>>

----------------------------------------------------------------------------
(* The cleanup of the mount effect *)

\* alive = false; if (chShop) removeChannel(chShop); if (chPantry) removeChannel(chPantry)
\* Notifications not yet delivered go with the channels.  Nothing else is
\* touched: the timers of pantryTimers keep running.
Unmount ==
    /\ alive
    /\ alive' = FALSE
    /\ chShop' = FALSE
    /\ chPantry' = FALSE
    /\ notif' = 0
    /\ pnotif' = 0
    /\ last' = Step("Unmount", Idle)
    /\ UNCHANGED <<userId, householdId, loading, initPc, shopping, msg, ops, remote,
                   nextTemp, nextId, nops, serverIdOf, resolved, confirmed, loaded>>
    /\ UNCHANGED <<pantry, remotePantry, timers, pantryTimers, nextTimer, upd, nedits,
                   dirty, burst, issued>>
    /\ UNCHANGED outerVars

----------------------------------------------------------------------------

Next ==
    \/ Unmount
    \/ GetUserDone
    \/ MembershipsDone
    \/ NotifyDeliver
    \/ \E s \in Slots : ServerSelect(s)
    \/ \E s \in Slots : LoadDone(s)
    \/ \E s \in Slots : ServerInsert(s)
    \/ \E s \in Slots : ServerUpdate(s)
    \/ \E s \in Slots : ServerDelete(s)
    \/ \E txt \in Inputs : AddShopping(txt)
    \/ \E s \in Slots : AddDone(s)
    \/ \E i \in DOMAIN shopping : ToggleShopping(i)
    \/ \E s \in Slots : ToggleDone(s)
    \/ \E i \in DOMAIN shopping : RemoveShopping(i)
    \/ ClearChecked
    \/ \E s \in Slots : RemoveDone(s)

Spec == Init /\ [][Next]_vars

\* the view loads once and the member then only toggles checkboxes; no change
\* notification is delivered, so nothing is reloaded
ToggleNext ==
    \/ GetUserDone
    \/ MembershipsDone
    \/ \E s \in Slots : ServerSelect(s)
    \/ \E s \in Slots : LoadDone(s)
    \/ \E i \in DOMAIN shopping : ToggleShopping(i)
    \/ \E s \in Slots : ServerUpdate(s)
    \/ \E s \in Slots : ToggleDone(s)

SpecToggle == Init /\ [][ToggleNext]_vars

----------------------------------------------------------------------------
(* The pantry of ShoppingPage: debounced field edits                        *)

\* a nullable column: null, or a value
None == <<>>
Some(x) == <<x>>

Digits == {"0", "1", "2"}
DigitVal(c) == IF c = "0" THEN 0 ELSE IF c = "1" THEN 1 ELSE 2

RECURSIVE Decimal(_)
Decimal(t) == IF t = <<>> THEN 0 ELSE 10 * Decimal(SubSeq(t, 1, Len(t) - 1)) + DigitVal(t[Len(t)])

\* Number.isNaN(Number(v)) on the inputs used here
IsNaN(v) == \E k \in DOMAIN Trim(v) : Trim(v)[k] \notin Digits

\* Number(v) of JavaScript where it is a number
NumberOf(v) == Decimal(Trim(v))

\* what the user may have typed in the name, qty and unit inputs of a row
NameInputs == {<<"a">>, <<"a", "b">>}
QtyInputs == {<<" ">>, <<"1">>, <<"1", "z">>}
UnitInputs == {<<"k", "g">>}

\* { ...x, ...patch }
Merge(x, patch) == [f \in DOMAIN x |-> IF f \in DOMAIN patch THEN patch[f] ELSE x[f]]

InitPantry ==
    [i \in 1 .. PantryItems |-> [id |-> ServerId(i), name |-> <<"a">>, qty |-> None,
                                 unit |-> None]]

\* the view is mounted, init() has run to its end and both loads succeeded
PantryInit ==
    /\ userId = Uid
    /\ householdId = Hid
    /\ loading = FALSE
    /\ initPc = "ready"
    /\ chShop = TRUE
    /\ shopping = <<>>
    /\ msg = Null
    /\ ops = [s \in Slots |-> Idle]
    /\ remote = <<>>
    /\ nextTemp = 0
    /\ nextId = PantryItems
    /\ notif = 0
    /\ nops = 0
    /\ serverIdOf = [n \in 1 .. MaxOps |-> NoId]
    /\ resolved = {}
    /\ confirmed = {}
    /\ loaded = <<>>
    /\ last = Step("Init", Idle)
    /\ pantry = InitPantry
    /\ remotePantry = InitPantry
    /\ timers = {}
    /\ pantryTimers = [id \in PantryIds |-> 0]
    /\ nextTimer = 0
    /\ upd = {}
    /\ pnotif = 0
    /\ nedits = 0
    /\ dirty = [id \in PantryIds |-> {}]
    /\ burst = [id \in PantryIds |-> <<>>]
    /\ issued = [id \in PantryIds |-> <<>>]
    /\ alive = TRUE
    /\ chPantry = TRUE
    /\ OuterIdle

Row(q, id) == q[CHOOSE k \in DOMAIN q : q[k].id = id]

\* the timer of the latest call for this record has not fired yet
BurstOpen(id) == \E t \in timers : t.h = pantryTimers[id]

\* a scheduler that leaves the previous timer running
ClearNothing(pending, prevTimer) == pending

\* window.clearTimeout(prevTimer)
ClearTimeout(pending, prevTimer) == {t \in pending : t.h # prevTimer}

\* if (prevTimer) window.clearTimeout(prevTimer)
CancelPrevious(pending, prevTimer) ==
    IF prevTimer # 0 THEN ClearTimeout(pending, prevTimer) ELSE pending

\* schedulePantryUpdate(id, patch)
SchedulePantryUpdate(id, patch) ==
    /\ nedits < MaxEdits
    /\ nedits' = nedits + 1
    /\ LET f(x) == IF x.id = id THEN Merge(x, patch) ELSE x IN pantry' = Map(pantry, f)
    /\ nextTimer' = nextTimer + 1
    /\ timers' = CancelPrevious(timers, pantryTimers[id])
                    \cup {[h |-> nextTimer + 1, id |-> id, patch |-> patch,
                           before |-> [f \in DOMAIN patch |-> Row(pantry, id)[f]]]}
    /\ pantryTimers' = [pantryTimers EXCEPT ![id] = nextTimer + 1]
    /\ dirty' = [dirty EXCEPT ![id] =
                    @ \cup {f \in DOMAIN patch : patch[f] # Row(pantry, id)[f]}]
    /\ burst' = [burst EXCEPT ![id] = IF BurstOpen(id) THEN Append(@, patch) ELSE <<patch>>]
    /\ issued' = [issued EXCEPT ![id] = IF BurstOpen(id) THEN @ ELSE <<>>]
    /\ last' = Step("SchedulePantryUpdate", Idle)
    /\ UNCHANGED <<msg, remotePantry, upd, pnotif>>
    /\ UNCHANGED <<shopRest, lifeVars, outerVars>>

\* onChange of the name input of a row
OnNameChange(i, v) ==
    /\ alive
    /\ ~loading
    /\ SchedulePantryUpdate(pantry[i].id, "name" :> v)

\* onChange of the qty input of a row
OnQtyChange(i, v) ==
    /\ alive
    /\ ~loading
    /\ IF Trim(v) = <<>>
          THEN SchedulePantryUpdate(pantry[i].id, "qty" :> None)
          ELSE IF ~IsNaN(v)
                  THEN SchedulePantryUpdate(pantry[i].id, "qty" :> Some(NumberOf(v)))
                  ELSE /\ last' = Step("QtyIgnored", Idle)
                       /\ UNCHANGED <<msg, pantryVars>>
                       /\ UNCHANGED <<shopRest, lifeVars, outerVars>>

\* onChange of the unit input of a row
OnUnitChange(i, v) ==
    /\ alive
    /\ ~loading
    /\ SchedulePantryUpdate(pantry[i].id, "unit" :> Some(v))

Request(h, kind, id, patch, before) ==
    [h |-> h, kind |-> kind, id |-> id, patch |-> patch, before |-> before,
     stage |-> "sent", ok |-> TRUE, data |-> <<>>]

\* the timeout callback: supabase.from("pantry_items").update(patch).eq("id", id)
TimerFire(t) ==
    /\ t \in timers
    /\ timers' = timers \ {t}
    /\ upd' = upd \cup {Request(t.h, "update", t.id, t.patch, t.before)}
    /\ issued' = [issued EXCEPT ![t.id] = Append(@, t.patch)]
    /\ dirty' = [dirty EXCEPT ![t.id] = {}]
    /\ last' = Step("TimerFire", Idle)
    /\ UNCHANGED <<msg, pantry, remotePantry, pantryTimers, nextTimer, pnotif, nedits,
                   burst>>
    /\ UNCHANGED <<shopRest, lifeVars, outerVars>>

\* the store executes the update of pantry_items
ServerPantryUpdate(u) ==
    /\ u \in upd
    /\ u.kind = "update"
    /\ u.stage = "sent"
    /\ \/ /\ upd' = (upd \ {u}) \cup {[u EXCEPT !.stage = "resp", !.ok = FALSE]}
          /\ UNCHANGED <<remotePantry, pnotif>>
       \/ /\ upd' = (upd \ {u}) \cup {[u EXCEPT !.stage = "resp", !.ok = TRUE]}
          /\ IF u.id \in Ids(remotePantry)
                THEN /\ chPantry => pnotif < MaxNotif
                     /\ LET f(x) == IF x.id = u.id THEN Merge(x, u.patch) ELSE x
                        IN remotePantry' = Map(remotePantry, f)
                     /\ pnotif' = IF chPantry THEN pnotif + 1 ELSE pnotif
                ELSE UNCHANGED <<remotePantry, pnotif>>
    /\ last' = Step("Server", Idle)
    /\ UNCHANGED <<msg, pantry, timers, pantryTimers, nextTimer, nedits, dirty, burst,
                   issued>>
    /\ UNCHANGED <<shopRest, lifeVars, outerVars>>

\* if (error) setMsg(error.message)
PantryUpdateDone(u) ==
    /\ u \in upd
    /\ u.kind = "update"
    /\ u.stage = "resp"
    /\ upd' = upd \ {u}
    /\ msg' = IF u.ok THEN msg ELSE Rejected
    /\ last' = [Step("PantryUpdateDone", Idle) EXCEPT !.ok = u.ok]
    /\ UNCHANGED <<pantry, remotePantry, timers, pantryTimers, nextTimer, pnotif, nedits,
                   dirty, burst, issued>>
    /\ UNCHANGED <<shopRest, lifeVars, outerVars>>

\* the pantry channel callback: () => loadPantry(hid)
PantryNotify ==
    /\ chPantry
    /\ pnotif > 0
    /\ Request(0, "load", NoId, <<>>, <<>>) \notin upd
    /\ pnotif' = pnotif - 1
    /\ upd' = upd \cup {Request(0, "load", NoId, <<>>, <<>>)}
    /\ last' = Step("PantryNotify", Idle)
    /\ UNCHANGED <<msg, pantry, remotePantry, timers, pantryTimers, nextTimer, nedits,
                   dirty, burst, issued>>
    /\ UNCHANGED <<shopRest, lifeVars, outerVars>>

ServerPantrySelect(u) ==
    /\ u \in upd
    /\ u.kind = "load"
    /\ u.stage = "sent"
    /\ \E ok \in BOOLEAN :
          upd' = (upd \ {u}) \cup {[u EXCEPT !.stage = "resp", !.ok = ok,
                                             !.data = IF ok THEN remotePantry ELSE <<>>]}
    /\ last' = Step("Server", Idle)
    /\ UNCHANGED <<msg, pantry, remotePantry, timers, pantryTimers, nextTimer, pnotif,
                   nedits, dirty, burst, issued>>
    /\ UNCHANGED <<shopRest, lifeVars, outerVars>>

\* loadPantry: if (error) setMsg(error.message); else setPantry(data)
PantryLoadDone(u) ==
    /\ u \in upd
    /\ u.kind = "load"
    /\ u.stage = "resp"
    /\ upd' = upd \ {u}
    /\ IF u.ok
          THEN pantry' = u.data /\ UNCHANGED msg
          ELSE msg' = Rejected /\ UNCHANGED pantry
    /\ last' = [Step("PantryLoadDone", Idle) EXCEPT !.ok = u.ok]
    /\ UNCHANGED <<remotePantry, timers, pantryTimers, nextTimer, pnotif, nedits, dirty,
                   burst, issued>>
    /\ UNCHANGED <<shopRest, lifeVars, outerVars>>

PantryNext ==
    \/ Unmount
    \/ \E i \in DOMAIN pantry : \E v \in NameInputs : OnNameChange(i, v)
    \/ \E i \in DOMAIN pantry : \E v \in QtyInputs : OnQtyChange(i, v)
    \/ \E i \in DOMAIN pantry : \E v \in UnitInputs : OnUnitChange(i, v)
    \/ \E t \in timers : TimerFire(t)
    \/ \E u \in upd : ServerPantryUpdate(u)
    \/ \E u \in upd : PantryUpdateDone(u)
    \/ PantryNotify
    \/ \E u \in upd : ServerPantrySelect(u)
    \/ \E u \in upd : PantryLoadDone(u)

SpecPantry == PantryInit /\ [][PantryNext]_vars

----------------------------------------------------------------------------
(* TodosPage: the mount effect, loadTodos, toggleTodo, removeTodo           *)
(* The list of members is used for labels only and is left out.             *)

\* ShoppingPage is not mounted
ShopAbsent ==
    /\ userId = Null
    /\ householdId = Null
    /\ loading = TRUE
    /\ initPc = "halt"
    /\ chShop = FALSE
    /\ shopping = <<>>
    /\ msg = Null
    /\ ops = [s \in Slots |-> Idle]
    /\ remote = <<>>
    /\ nextTemp = 0
    /\ nextId = 0
    /\ notif = 0
    /\ nops = 0
    /\ serverIdOf = [n \in 1 .. MaxOps |-> NoId]
    /\ resolved = {}
    /\ confirmed = {}
    /\ loaded = <<>>
    /\ last = Step("Init", Idle)
    /\ alive = FALSE
    /\ PantryIdle

InitTodos ==
    [i \in 1 .. TodoItems |-> [id |-> ServerId(i), title |-> <<"a">>, done |-> (i % 2 = 0),
                               created |-> i]]

\* TodosPage has just been constructed and init() is about to call getUser
TodosInit ==
    /\ ShopAbsent
    /\ EcoAbsent
    /\ EventsAbsent
    /\ tdMounted = TRUE
    /\ tdPc = "getUser"
    /\ channel = Null
    /\ tdSubs = 0
    /\ tdUserId = Null
    /\ tdHouseholdId = Null
    /\ todos = <<>>
    /\ tdMsg = Null
    /\ tdReqs = {}
    /\ tdSeq = 0
    /\ tdOps = 0
    /\ tdNotif = 0
    /\ remoteTodos = InitTodos

Reverse(q) == [i \in 1 .. Len(q) |-> q[Len(q) + 1 - i]]

\* .order("done", { ascending: true }).order("created_at", { ascending: false })
\* of rows kept in creation order
OrderTodos(rows) ==
    LET open(x) == ~x.done
        closed(x) == x.done
    IN Reverse(SelectSeq(rows, open)) \o Reverse(SelectSeq(rows, closed))

\* the columns "id,title,done,assigned_to" of a row; assigned_to is not modelled
Columns(x) == [id |-> x.id, title |-> x.title, done |-> x.done]

TdRequest(kind, id, next, hid, init) ==
    [n |-> tdSeq + 1, kind |-> kind, id |-> id, next |-> next, hid |-> hid,
     init |-> init, stage |-> "sent", ok |-> TRUE, data |-> <<>>]

\* loadTodos(hid) up to its await
TdLoad(reqs, hid, init) == reqs \cup {TdRequest("select", NoId, FALSE, hid, init)}

\* const { data: userRes } = await supabase.auth.getUser(); if (!user) return setMsg(...)
TdGetUserDone ==
    /\ tdPc = "getUser"
    /\ \/ /\ tdMsg' = NotLoggedIn
          /\ tdPc' = "halt"
          /\ UNCHANGED tdUserId
       \/ /\ tdUserId' = Uid
          /\ tdPc' = "memberships"
          /\ UNCHANGED tdMsg
    /\ UNCHANGED <<tdMounted, channel, tdSubs, tdHouseholdId, todos, tdReqs, tdSeq, tdOps,
                   tdNotif, remoteTodos>>
    /\ UNCHANGED notTodo

\* the memberships select resolves; on a household id loadMembers() is called
TdMembershipsDone ==
    /\ tdPc = "memberships"
    /\ \/ /\ tdMsg' = Rejected
          /\ tdPc' = "halt"
          /\ UNCHANGED tdHouseholdId
       \/ /\ tdMsg' = NoHousehold
          /\ tdPc' = "halt"
          /\ UNCHANGED tdHouseholdId
       \/ /\ tdHouseholdId' = Hid
          /\ tdPc' = "members"
          /\ UNCHANGED tdMsg
    /\ UNCHANGED <<tdMounted, channel, tdSubs, tdUserId, todos, tdReqs, tdSeq, tdOps,
                   tdNotif, remoteTodos>>
    /\ UNCHANGED notTodo

\* await loadMembers() resolves (an error is recorded, not thrown); then
\* loadTodos(hid) is called
TdMembersDone ==
    /\ tdPc = "members"
    /\ \E ok \in BOOLEAN : tdMsg' = IF ok THEN tdMsg ELSE Rejected
    /\ tdPc' = "todos"
    /\ tdReqs' = TdLoad(tdReqs, Hid, TRUE)
    /\ tdSeq' = tdSeq + 1
    /\ UNCHANGED <<tdMounted, channel, tdSubs, tdUserId, tdHouseholdId, todos, tdOps,
                   tdNotif, remoteTodos>>
    /\ UNCHANGED notTodo

\* the store answers the select of loadTodos
TdServerSelect(r) ==
    /\ r \in tdReqs
    /\ r.kind = "select"
    /\ r.stage = "sent"
    /\ \E ok \in BOOLEAN :
          tdReqs' = (tdReqs \ {r})
                       \cup {[r EXCEPT !.stage = "resp", !.ok = ok,
                                       !.data = IF ok THEN OrderTodos(remoteTodos)
                                                ELSE <<>>]}
    /\ UNCHANGED <<tdMounted, tdPc, channel, tdSubs, tdUserId, tdHouseholdId, todos, tdMsg,
                   tdSeq, tdOps, tdNotif, remoteTodos>>
    /\ UNCHANGED notTodo

\* loadTodos after its await; when it is the call init() awaits, init() goes on
\* to open the channel: channel = supabase.channel(...).on(...).subscribe()
TdLoadDone(r) ==
    /\ r \in tdReqs
    /\ r.kind = "select"
    /\ r.stage = "resp"
    /\ tdReqs' = tdReqs \ {r}
    /\ IF r.ok
          THEN /\ tdMsg' = Null
               /\ todos' = Map(r.data, Columns)
          ELSE /\ tdMsg' = Rejected
               /\ UNCHANGED todos
    /\ IF r.init
          THEN /\ channel' = "ch"
               /\ tdSubs' = tdSubs + 1
               /\ tdPc' = "ready"
          ELSE UNCHANGED <<channel, tdSubs, tdPc>>
    /\ UNCHANGED <<tdMounted, tdUserId, tdHouseholdId, tdSeq, tdOps, tdNotif, remoteTodos>>
    /\ UNCHANGED notTodo

\* the channel callback: async () => { await loadTodos(hid); }
TdNotifyDeliver ==
    /\ tdSubs > 0
    /\ tdNotif > 0
    /\ tdNotif' = tdNotif - 1
    /\ tdReqs' = TdLoad(tdReqs, Hid, FALSE)
    /\ tdSeq' = tdSeq + 1
    /\ UNCHANGED <<tdMounted, tdPc, channel, tdSubs, tdUserId, tdHouseholdId, todos, tdMsg,
                   tdOps, remoteTodos>>
    /\ UNCHANGED notTodo

\* the cleanup of the effect: if (channel) supabase.removeChannel(channel)
TdUnmount ==
    /\ tdMounted
    /\ tdMounted' = FALSE
    /\ IF channel # Null
          THEN tdSubs' = tdSubs - 1 /\ tdNotif' = 0
          ELSE UNCHANGED <<tdSubs, tdNotif>>
    /\ UNCHANGED <<tdPc, channel, tdUserId, tdHouseholdId, todos, tdMsg, tdReqs, tdSeq,
                   tdOps, remoteTodos>>
    /\ UNCHANGED notTodo

\* toggleTodo(todo) up to its await
ToggleTodo(i) ==
    /\ tdMounted
    /\ tdOps < MaxTodoOps
    /\ tdOps' = tdOps + 1
    /\ tdMsg' = Null
    /\ tdReqs' = tdReqs \cup {TdRequest("update", todos[i].id, ~todos[i].done,
                                        tdHouseholdId, FALSE)}
    /\ tdSeq' = tdSeq + 1
    /\ UNCHANGED <<tdMounted, tdPc, channel, tdSubs, tdUserId, tdHouseholdId, todos,
                   tdNotif, remoteTodos>>
    /\ UNCHANGED notTodo

\* removeTodo(todo) up to its await
RemoveTodo(i) ==
    /\ tdMounted
    /\ tdOps < MaxTodoOps
    /\ tdOps' = tdOps + 1
    /\ tdMsg' = Null
    /\ tdReqs' = tdReqs \cup {TdRequest("delete", todos[i].id, FALSE, tdHouseholdId, FALSE)}
    /\ tdSeq' = tdSeq + 1
    /\ UNCHANGED <<tdMounted, tdPc, channel, tdSubs, tdUserId, tdHouseholdId, todos,
                   tdNotif, remoteTodos>>
    /\ UNCHANGED notTodo

\* a committed write is announced to every open subscription
TdCanEmit == tdSubs = 0 \/ tdNotif < MaxNotif
TdEmit == IF tdSubs > 0 THEN tdNotif + 1 ELSE tdNotif

\* .update({ done: next, done_at: ... }).eq("id", todo.id)
TdServerUpdate(r) ==
    /\ r \in tdReqs
    /\ r.kind = "update"
    /\ r.stage = "sent"
    /\ \/ /\ tdReqs' = (tdReqs \ {r}) \cup {[r EXCEPT !.stage = "resp", !.ok = FALSE]}
          /\ UNCHANGED <<remoteTodos, tdNotif>>
       \/ /\ tdReqs' = (tdReqs \ {r}) \cup {[r EXCEPT !.stage = "resp", !.ok = TRUE]}
          /\ IF r.id \in Ids(remoteTodos)
                THEN /\ TdCanEmit
                     /\ LET f(x) == IF x.id = r.id THEN [x EXCEPT !.done = r.next] ELSE x
                        IN remoteTodos' = Map(remoteTodos, f)
                     /\ tdNotif' = TdEmit
                ELSE UNCHANGED <<remoteTodos, tdNotif>>
    /\ UNCHANGED <<tdMounted, tdPc, channel, tdSubs, tdUserId, tdHouseholdId, todos, tdMsg,
                   tdSeq, tdOps>>
    /\ UNCHANGED notTodo

\* .delete().eq("id", todo.id)
TdServerDelete(r) ==
    /\ r \in tdReqs
    /\ r.kind = "delete"
    /\ r.stage = "sent"
    /\ \/ /\ tdReqs' = (tdReqs \ {r}) \cup {[r EXCEPT !.stage = "resp", !.ok = FALSE]}
          /\ UNCHANGED <<remoteTodos, tdNotif>>
       \/ /\ tdReqs' = (tdReqs \ {r}) \cup {[r EXCEPT !.stage = "resp", !.ok = TRUE]}
          /\ IF r.id \in Ids(remoteTodos)
                THEN /\ TdCanEmit
                     /\ LET keep(x) == x.id # r.id IN remoteTodos' = Filter(remoteTodos, keep)
                     /\ tdNotif' = TdEmit
                ELSE UNCHANGED <<remoteTodos, tdNotif>>
    /\ UNCHANGED <<tdMounted, tdPc, channel, tdSubs, tdUserId, tdHouseholdId, todos, tdMsg,
                   tdSeq, tdOps>>
    /\ UNCHANGED notTodo

\* toggleTodo and removeTodo after their await:
\* if (error) return setMsg(error.message); if (householdId) await loadTodos(householdId)
TdWriteDone(r) ==
    /\ r \in tdReqs
    /\ r.kind \in {"update", "delete"}
    /\ r.stage = "resp"
    /\ IF ~r.ok
          THEN /\ tdMsg' = Rejected
               /\ tdReqs' = tdReqs \ {r}
               /\ UNCHANGED tdSeq
          ELSE IF r.hid # Null
               THEN /\ tdReqs' = TdLoad(tdReqs \ {r}, r.hid, FALSE)
                    /\ tdSeq' = tdSeq + 1
                    /\ UNCHANGED tdMsg
               ELSE /\ tdReqs' = tdReqs \ {r}
                    /\ UNCHANGED <<tdMsg, tdSeq>>
    /\ UNCHANGED <<tdMounted, tdPc, channel, tdSubs, tdUserId, tdHouseholdId, todos, tdOps,
                   tdNotif, remoteTodos>>
    /\ UNCHANGED notTodo

TodosNext ==
    \/ TdGetUserDone
    \/ TdMembershipsDone
    \/ TdMembersDone
    \/ \E r \in tdReqs : TdServerSelect(r)
    \/ \E r \in tdReqs : TdLoadDone(r)
    \/ TdNotifyDeliver
    \/ TdUnmount
    \/ \E i \in DOMAIN todos : ToggleTodo(i)
    \/ \E i \in DOMAIN todos : RemoveTodo(i)
    \/ \E r \in tdReqs : TdServerUpdate(r)
    \/ \E r \in tdReqs : TdServerDelete(r)
    \/ \E r \in tdReqs : TdWriteDone(r)

SpecTodos == TodosInit /\ [][TodosNext]_vars

----------------------------------------------------------------------------
(* EconomyPage: the mount effect, loadMembers, loadExpenses, addExpense,    *)
(* removeExpense                                                           *)

OtherUid == "u2"
BadAmount == "Summa maste vara ett nummer > 0."

\* what rpc get_household_members returns
Roster ==
    <<[user_id |-> Uid, display_name |-> <<"X">>],
      [user_id |-> OtherUid, display_name |-> <<"Y">>]>>

InitExpenses ==
    [i \in 1 .. ExpenseItems |->
        [id |-> ServerId(i), paid_by |-> IF i % 2 = 1 THEN OtherUid ELSE Uid,
         title |-> <<"a">>, amount_ore |-> 100 * i]]

\* what the user may have typed in the title and amount inputs
TitleInputs == {<<" ">>, <<"a">>}
KrInputs == {<<>>, <<"0">>, <<"1">>, <<"z">>}

NoExpense == [id |-> NoId, paid_by |-> Null, title |-> <<>>, amount_ore |-> 0]

\* EconomyPage has just been constructed and init() is about to run
EcoInit ==
    /\ ShopAbsent
    /\ TodosAbsent
    /\ EventsAbsent
    /\ SettleIdle
    /\ ecAlive = TRUE
    /\ ecPc = "basics"
    /\ ch = Null
    /\ ecSubs = 0
    /\ ecUserId = Null
    /\ ecHouseholdId = Null
    /\ members = <<>>
    /\ expenses = <<>>
    /\ ecMsg = Null
    /\ ecLoading = TRUE
    /\ ecReqs = {}
    /\ ecSeq = 0
    /\ ecOps = 0
    /\ ecNotif = 0
    /\ ecNextId = ExpenseItems
    /\ remoteExpenses = InitExpenses
    /\ unhandled = 0

EcRequest(n, kind, init, item, snap) ==
    [n |-> n, kind |-> kind, init |-> init, item |-> item, snap |-> snap,
     stage |-> "sent", ok |-> TRUE, data |-> <<>>]

\* loadExpenses(hid) up to its await
EcLoad(n, init) == EcRequest(n, "select", init, NoExpense, <<>>)

\* await loadHouseholdBasics() returns or throws, and init() runs up to
\* await Promise.all([loadMembers(), loadExpenses(hid)])
EcBasicsDone ==
    /\ ecPc = "basics"
    /\ \/ /\ ecMsg' = Rejected
          /\ ecLoading' = FALSE
          /\ ecPc' = "halt"
          /\ UNCHANGED <<ecUserId, ecHouseholdId, ecReqs, ecSeq>>
       \/ /\ ~ecAlive
          /\ ecPc' = "halt"
          /\ UNCHANGED <<ecMsg, ecLoading, ecUserId, ecHouseholdId, ecReqs, ecSeq>>
       \/ /\ ecAlive
          /\ ecMsg' = NotLoggedIn
          /\ ecLoading' = FALSE
          /\ ecPc' = "halt"
          /\ UNCHANGED <<ecUserId, ecHouseholdId, ecReqs, ecSeq>>
       \/ /\ ecAlive
          /\ ecUserId' = Uid
          /\ ecMsg' = NoHousehold
          /\ ecLoading' = FALSE
          /\ ecPc' = "halt"
          /\ UNCHANGED <<ecHouseholdId, ecReqs, ecSeq>>
       \/ /\ ecAlive
          /\ ecUserId' = Uid
          /\ ecHouseholdId' = Hid
          /\ ecPc' = "loads"
          /\ ecReqs' = ecReqs \cup {EcRequest(ecSeq + 1, "members", TRUE, NoExpense, <<>>),
                                     EcLoad(ecSeq + 2, TRUE)}
          /\ ecSeq' = ecSeq + 2
          /\ UNCHANGED <<ecMsg, ecLoading>>
    /\ UNCHANGED <<ecAlive, ch, ecSubs, members, expenses, ecOps, ecNotif, ecNextId,
                   remoteExpenses, unhandled>>
    /\ UNCHANGED notEco

\* the store answers rpc get_household_members
EcServerMembers(r) ==
    /\ r \in ecReqs
    /\ r.kind = "members"
    /\ r.stage = "sent"
    /\ \E ok \in BOOLEAN :
          ecReqs' = (ecReqs \ {r})
                       \cup {[r EXCEPT !.stage = "resp", !.ok = ok,
                                       !.data = IF ok THEN Roster ELSE <<>>]}
    /\ UNCHANGED <<ecAlive, ecPc, ch, ecSubs, ecUserId, ecHouseholdId, members, expenses,
                   ecMsg, ecLoading, ecSeq, ecOps, ecNotif, ecNextId, remoteExpenses,
                   unhandled>>
    /\ UNCHANGED notEco

\* the store answers the select of loadExpenses: newest first
EcServerSelect(r) ==
    /\ r \in ecReqs
    /\ r.kind = "select"
    /\ r.stage = "sent"
    /\ \E ok \in BOOLEAN :
          ecReqs' = (ecReqs \ {r})
                       \cup {[r EXCEPT !.stage = "resp", !.ok = ok,
                                       !.data = IF ok THEN Reverse(remoteExpenses)
                                                ELSE <<>>]}
    /\ UNCHANGED <<ecAlive, ecPc, ch, ecSubs, ecUserId, ecHouseholdId, members, expenses,
                   ecMsg, ecLoading, ecSeq, ecOps, ecNotif, ecNextId, remoteExpenses,
                   unhandled>>
    /\ UNCHANGED notEco

\* request r is the last of the two loads init() awaits and both succeeded
InitContinues(r) ==
    ecPc = "loads" /\ r.init /\ r.ok /\ ~\E q \in ecReqs \ {r} : q.init

\* request r is the first of the two loads to fail: Promise.all rejects
InitCatches(r) == ecPc = "loads" /\ r.init /\ ~r.ok

\* init() after await Promise.all(...): if (!alive) return; the channel is
\* subscribed; setLoading(false).  Or its catch: setMsg(e.message); setLoading(false)
EcInitResumes(r) ==
    IF InitContinues(r)
    THEN IF ecAlive
         THEN /\ ch' = "ch"
              /\ ecSubs' = ecSubs + 1
              /\ ecLoading' = FALSE
              /\ ecPc' = "ready"
              /\ UNCHANGED ecMsg
         ELSE /\ ecPc' = "halt"
              /\ UNCHANGED <<ch, ecSubs, ecLoading, ecMsg>>
    ELSE IF InitCatches(r)
         THEN /\ ecMsg' = Rejected
              /\ ecLoading' = FALSE
              /\ ecPc' = "halt"
              /\ UNCHANGED <<ch, ecSubs>>
         ELSE UNCHANGED <<ch, ecSubs, ecLoading, ecPc, ecMsg>>

\* loadMembers after its await: if (error) throw ...; setMembers(data)
EcMembersDone(r) ==
    /\ r \in ecReqs
    /\ r.kind = "members"
    /\ r.stage = "resp"
    /\ ecReqs' = ecReqs \ {r}
    /\ members' = IF r.ok THEN r.data ELSE members
    /\ EcInitResumes(r)
    /\ UNCHANGED <<ecAlive, ecUserId, ecHouseholdId, expenses, ecSeq, ecOps, ecNotif,
                   ecNextId, remoteExpenses, unhandled>>
    /\ UNCHANGED notEco

\* loadExpenses after its await: if (error) throw new Error(error.message);
\* setExpenses(data).  Thrown inside init() the error reaches init()'s catch;
\* thrown inside the channel callback it rejects a promise nobody awaits.
EcLoadDone(r) ==
    /\ r \in ecReqs
    /\ r.kind = "select"
    /\ r.stage = "resp"
    /\ ecReqs' = ecReqs \ {r}
    /\ expenses' = IF r.ok THEN r.data ELSE expenses
    /\ EcInitResumes(r)
    /\ unhandled' = IF ~r.ok /\ ~r.init THEN unhandled + 1 ELSE unhandled
    /\ UNCHANGED <<ecAlive, ecUserId, ecHouseholdId, members, ecSeq, ecOps, ecNotif,
                   ecNextId, remoteExpenses>>
    /\ UNCHANGED notEco

\* the channel callback: () => loadExpenses(hid)
EcNotifyDeliver ==
    /\ ecSubs > 0
    /\ ecNotif > 0
    /\ ecNotif' = ecNotif - 1
    /\ ecReqs' = ecReqs \cup {EcLoad(ecSeq + 1, FALSE)}
    /\ ecSeq' = ecSeq + 1
    /\ UNCHANGED <<ecAlive, ecPc, ch, ecSubs, ecUserId, ecHouseholdId, members, expenses,
                   ecMsg, ecLoading, ecOps, ecNextId, remoteExpenses, unhandled>>
    /\ UNCHANGED notEco

\* the cleanup of the effect: alive = false; if (ch) supabase.removeChannel(ch)
EcUnmount ==
    /\ ecAlive
    /\ ecAlive' = FALSE
    /\ IF ch # Null
          THEN ecSubs' = ecSubs - 1 /\ ecNotif' = 0
          ELSE UNCHANGED <<ecSubs, ecNotif>>
    /\ UNCHANGED <<ecPc, ch, ecUserId, ecHouseholdId, members, expenses, ecMsg, ecLoading,
                   ecReqs, ecSeq, ecOps, ecNextId, remoteExpenses, unhandled>>
    /\ UNCHANGED notEco

\* addExpense up to its await
AddExpense(ttl, kr) ==
    /\ ecAlive
    /\ ~ecLoading
    /\ LET t == Trim(ttl)
           cleaned == Trim(kr)
       IN IF ecHouseholdId = Null \/ ecUserId = Null \/ t = <<>>
          THEN /\ ecMsg' = Null
               /\ UNCHANGED <<expenses, ecReqs, ecSeq, ecOps>>
          ELSE IF cleaned = <<>> \/ IsNaN(cleaned) \/ NumberOf(cleaned) <= 0
          THEN /\ ecMsg' = BadAmount
               /\ UNCHANGED <<expenses, ecReqs, ecSeq, ecOps>>
          ELSE /\ ecOps < MaxEcoOps
               /\ ecOps' = ecOps + 1
               /\ ecMsg' = Null
               /\ LET optimistic == [id |-> TempId(ecSeq + 1), paid_by |-> ecUserId,
                                     title |-> t, amount_ore |-> NumberOf(cleaned) * 100]
                  IN /\ expenses' = <<optimistic>> \o expenses
                     /\ ecReqs' = ecReqs
                                     \cup {EcRequest(ecSeq + 1, "insert", FALSE, optimistic, <<>>)}
               /\ ecSeq' = ecSeq + 1
    /\ UNCHANGED <<ecAlive, ecPc, ch, ecSubs, ecUserId, ecHouseholdId, members, ecLoading,
                   ecNotif, ecNextId, remoteExpenses, unhandled>>
    /\ UNCHANGED notEco

\* a handler that rewrites the amount of the record where it stands
ZeroExpense(i) ==
    /\ ecAlive
    /\ ~ecLoading
    /\ ecOps < MaxEcoOps
    /\ ecOps' = ecOps + 1
    /\ ecMsg' = Null
    /\ expenses' = [expenses EXCEPT ![i].amount_ore = 0]
    /\ UNCHANGED <<ecReqs, ecSeq>>
    /\ UNCHANGED <<ecAlive, ecPc, ch, ecSubs, ecUserId, ecHouseholdId, members, ecLoading,
                   ecNotif, ecNextId, remoteExpenses, unhandled>>
    /\ UNCHANGED notEco

\* removeExpense(e) up to its await
RemoveExpense(i) ==
    /\ ecAlive
    /\ ~ecLoading
    /\ ecOps < MaxEcoOps
    /\ ecOps' = ecOps + 1
    /\ ecMsg' = Null
    /\ LET keep(x) == x.id # expenses[i].id IN expenses' = Filter(expenses, keep)
    /\ ecReqs' = ecReqs \cup {EcRequest(ecSeq + 1, "delete", FALSE, expenses[i], expenses)}
    /\ ecSeq' = ecSeq + 1
    /\ UNCHANGED <<ecAlive, ecPc, ch, ecSubs, ecUserId, ecHouseholdId, members, ecLoading,
                   ecNotif, ecNextId, remoteExpenses, unhandled>>
    /\ UNCHANGED notEco

\* a committed write is announced to every open subscription
EcCanEmit == ecSubs = 0 \/ ecNotif < MaxNotif
EcEmit == IF ecSubs > 0 THEN ecNotif + 1 ELSE ecNotif

\* .insert({ household_id, paid_by, title, amount_ore, created_by }).select(...).single()
EcServerInsert(r) ==
    /\ r \in ecReqs
    /\ r.kind = "insert"
    /\ r.stage = "sent"
    /\ \/ /\ ecReqs' = (ecReqs \ {r}) \cup {[r EXCEPT !.stage = "resp", !.ok = FALSE]}
          /\ UNCHANGED <<remoteExpenses, ecNextId, ecNotif>>
       \/ /\ EcCanEmit
          /\ LET row == [r.item EXCEPT !.id = ServerId(ecNextId + 1)]
             IN /\ remoteExpenses' = Append(remoteExpenses, row)
                /\ ecReqs' = (ecReqs \ {r})
                                \cup {[r EXCEPT !.stage = "resp", !.ok = TRUE,
                                                !.data = <<row>>]}
          /\ ecNextId' = ecNextId + 1
          /\ ecNotif' = EcEmit
    /\ UNCHANGED <<ecAlive, ecPc, ch, ecSubs, ecUserId, ecHouseholdId, members, expenses,
                   ecMsg, ecLoading, ecSeq, ecOps, unhandled>>
    /\ UNCHANGED notEco

\* .delete().eq("id", e.id)
EcServerDelete(r) ==
    /\ r \in ecReqs
    /\ r.kind = "delete"
    /\ r.stage = "sent"
    /\ \/ /\ ecReqs' = (ecReqs \ {r}) \cup {[r EXCEPT !.stage = "resp", !.ok = FALSE]}
          /\ UNCHANGED <<remoteExpenses, ecNotif>>
       \/ /\ ecReqs' = (ecReqs \ {r}) \cup {[r EXCEPT !.stage = "resp", !.ok = TRUE]}
          /\ IF r.item.id \in Ids(remoteExpenses)
                THEN /\ EcCanEmit
                     /\ LET keep(x) == x.id # r.item.id
                        IN remoteExpenses' = Filter(remoteExpenses, keep)
                     /\ ecNotif' = EcEmit
                ELSE UNCHANGED <<remoteExpenses, ecNotif>>
    /\ UNCHANGED <<ecAlive, ecPc, ch, ecSubs, ecUserId, ecHouseholdId, members, expenses,
                   ecMsg, ecLoading, ecSeq, ecOps, ecNextId, unhandled>>
    /\ UNCHANGED notEco

\* addExpense after its await
EcAddDone(r) ==
    /\ r \in ecReqs
    /\ r.kind = "insert"
    /\ r.stage = "resp"
    /\ ecReqs' = ecReqs \ {r}
    /\ IF ~r.ok
          THEN /\ ecMsg' = Rejected
               /\ LET keep(x) == x.id # r.item.id IN expenses' = Filter(expenses, keep)
          ELSE /\ LET f(x) == IF x.id = r.item.id THEN r.data[1] ELSE x
                  IN expenses' = Map(expenses, f)
               /\ UNCHANGED ecMsg
    /\ UNCHANGED <<ecAlive, ecPc, ch, ecSubs, ecUserId, ecHouseholdId, members, ecLoading,
                   ecSeq, ecOps, ecNotif, ecNextId, remoteExpenses, unhandled>>
    /\ UNCHANGED notEco

\* removeExpense after its await
EcRemoveDone(r) ==
    /\ r \in ecReqs
    /\ r.kind = "delete"
    /\ r.stage = "resp"
    /\ ecReqs' = ecReqs \ {r}
    /\ IF ~r.ok
          THEN /\ ecMsg' = Rejected
               /\ expenses' = r.snap
          ELSE UNCHANGED <<ecMsg, expenses>>
    /\ UNCHANGED <<ecAlive, ecPc, ch, ecSubs, ecUserId, ecHouseholdId, members, ecLoading,
                   ecSeq, ecOps, ecNotif, ecNextId, remoteExpenses, unhandled>>
    /\ UNCHANGED notEco

EcoNext ==
    \/ EcBasicsDone
    \/ \E r \in ecReqs : EcServerMembers(r)
    \/ \E r \in ecReqs : EcServerSelect(r)
    \/ \E r \in ecReqs : EcMembersDone(r)
    \/ \E r \in ecReqs : EcLoadDone(r)
    \/ EcNotifyDeliver
    \/ EcUnmount
    \/ \E ttl \in TitleInputs : \E kr \in KrInputs : AddExpense(ttl, kr)
    \/ \E i \in DOMAIN expenses : RemoveExpense(i)
    \/ \E r \in ecReqs : EcServerInsert(r)
    \/ \E r \in ecReqs : EcServerDelete(r)
    \/ \E r \in ecReqs : EcAddDone(r)
    \/ \E r \in ecReqs : EcRemoveDone(r)

SpecEconomy == EcoInit /\ [][EcoNext]_vars

----------------------------------------------------------------------------
(* EconomyPage: roundOre, totalOre, totalsByUser, balances,                 *)
(* computeSettlements                                                      *)
(*                                                                         *)
(* paid - share is the rational (N * paid - total) / N; the amounts are     *)
(* small integers, so the double the code computes is within 1e-9 of it    *)
(* and is exact whenever the fraction is one half.                         *)

\* the household members the rosters are drawn from
MemberPool ==
    <<[user_id |-> Uid, display_name |-> <<"X">>],
      [user_id |-> OtherUid, display_name |-> <<"Y">>],
      [user_id |-> "u3", display_name |-> <<" ">>],
      [user_id |-> "u4", display_name |-> <<"Z">>],
      [user_id |-> "u5", display_name |-> <<"W">>]>>

Pool == {MemberPool[k] : k \in 1 .. MaxMembers}

\* the amounts, in ore, of the rows of table expenses
Amounts == {1, 500, 900, 1000}

\* what get_household_members may return: every member once, in any order
Rosters ==
    {r \in UNION {[1 .. n -> Pool] : n \in 0 .. MaxMembers} :
        \A a, b \in DOMAIN r : a # b => r[a].user_id # r[b].user_id}

\* what loadExpenses may return
Ledgers ==
    UNION {[1 .. n -> {[id |-> ServerId(0), paid_by |-> m.user_id, title |-> <<"a">>,
                        amount_ore |-> a] : m \in Pool, a \in Amounts}]
           : n \in 0 .. MaxLedger}

\* EconomyPage has loaded members and expenses and is about to render
SettleInit ==
    /\ ShopAbsent
    /\ TodosAbsent
    /\ EventsAbsent
    /\ SettleIdle
    /\ ecAlive = TRUE
    /\ ecPc = "ready"
    /\ ch = "ch"
    /\ ecSubs = 1
    /\ ecUserId = Uid
    /\ ecHouseholdId = Hid
    /\ members \in Rosters
    /\ expenses \in Ledgers
    /\ ecMsg = Null
    /\ ecLoading = FALSE
    /\ ecReqs = {}
    /\ ecSeq = 0
    /\ ecOps = 0
    /\ ecNotif = 0
    /\ ecNextId = 0
    /\ remoteExpenses = expenses
    /\ unhandled = 0

\* the floor of num / den
RoundFloor(num, den) == num \div den
\* Math.round of the rational num / den, den > 0: floor(num / den + 1/2)
roundOre(num, den) == (2 * num + den) \div (2 * den)

RECURSIVE SumAmounts(_)
SumAmounts(rows) ==
    IF rows = <<>> THEN 0 ELSE Head(rows).amount_ore + SumAmounts(Tail(rows))

FirstAmount == IF expenses = <<>> THEN 0 ELSE Head(expenses).amount_ore
totalOre == SumAmounts(expenses)

\* totalsByUser.get(uid) ?? 0
PaidRow(uid, e) == e.paid_by = uid
PaidEveryone(uid) == totalOre
totalsByUser(uid) == SumAmounts(SelectSeq(expenses, LAMBDA e : PaidRow(uid, e)))

\* (m.display_name || "").trim() || m.user_id.slice(0, 6); the ids of the model
\* are shorter than six characters
DisplayName(m) ==
    IF Trim(m.display_name) # <<>> THEN Trim(m.display_name) ELSE <<m.user_id>>

Balances ==
    IF Len(members) = 0 THEN <<>>
    ELSE [k \in DOMAIN members |->
            [user_id |-> members[k].user_id,
             display_name |-> DisplayName(members[k]),
             balance_ore |-> roundOre(Len(members) * totalsByUser(members[k].user_id)
                                          - totalOre, Len(members))]]

\* an insertion that puts a record before the records equal to it
InsertDescFirst(sorted, b) ==
    LET more(x) == x.balance_ore > b.balance_ore
        rest(x) == x.balance_ore <= b.balance_ore
    IN  SelectSeq(sorted, more) \o <<b>> \o SelectSeq(sorted, rest)

\* Array.prototype.sort((a, b) => b.balance_ore - a.balance_ore): stable, descending
RECURSIVE InsertDesc(_, _)
InsertDesc(sorted, b) ==
    IF sorted = <<>> THEN <<b>>
    ELSE IF Head(sorted).balance_ore >= b.balance_ore
         THEN <<Head(sorted)>> \o InsertDesc(Tail(sorted), b)
         ELSE <<b>> \o sorted

RECURSIVE SortDesc(_)
SortDesc(bs) ==
    IF bs = <<>> THEN <<>>
    ELSE InsertDesc(SortDesc(SubSeq(bs, 1, Len(bs) - 1)), bs[Len(bs)])

IsCreditor(b) == b.balance_ore > 0
IsDebtor(b) == b.balance_ore < 0

\* the objects the array bs holds; of is the position of the object in bs, and 0
\* for an object that is not in the array
Objects(bs) ==
    [k \in DOMAIN bs |->
        [user_id |-> bs[k].user_id, display_name |-> bs[k].display_name,
         balance_ore |-> bs[k].balance_ore, of |-> k]]

\* { ...b }: a new object with the fields of b
Alias(b) == b
Copy(b) == [b EXCEPT !.of = 0]
\* { ...b, balance_ore: -b.balance_ore }
OwesUnsigned(b) == [b EXCEPT !.of = 0]
Owes(b) == [b EXCEPT !.balance_ore = -b.balance_ore, !.of = 0]

Creditors(bs) ==
    LET kept == SelectSeq(Objects(bs), IsCreditor)
    IN  SortDesc([k \in DOMAIN kept |-> Copy(kept[k])])
Debtors(bs) ==
    LET kept == SelectSeq(Objects(bs), IsDebtor)
    IN  SortDesc([k \in DOMAIN kept |-> Owes(kept[k])])

Greatest(a, b) == IF a >= b THEN a ELSE b
Least(a, b) == IF a <= b THEN a ELSE b

\* the state of the while loop of computeSettlements; i and j count from 1
LoopStart(debtors, creditors) ==
    [debtors |-> debtors, creditors |-> creditors, i |-> 1, j |-> 1, lines |-> <<>>]

\* while (i < debtors.length && j < creditors.length)
LoopGuard(st) == st.i <= Len(st.debtors) /\ st.j <= Len(st.creditors)

\* a body that moves at most 100 ore in one line
LoopBodyCapped(st) ==
    LET d == st.debtors[st.i]
        c == st.creditors[st.j]
        x == Least(Least(d.balance_ore, c.balance_ore), 100)
        line == IF x > 0
                THEN <<[from |-> d.display_name, to |-> c.display_name,
                        amount_ore |-> x]>>
                ELSE <<>>
        dLeft == d.balance_ore - x
        cLeft == c.balance_ore - x
    IN  [debtors |-> [st.debtors EXCEPT ![st.i].balance_ore = dLeft],
         creditors |-> [st.creditors EXCEPT ![st.j].balance_ore = cLeft],
         i |-> IF dLeft <= 0 THEN st.i + 1 ELSE st.i,
         j |-> IF cLeft <= 0 THEN st.j + 1 ELSE st.j,
         lines |-> st.lines \o line]

\* a body that advances only past a party whose balance went below zero
LoopBodyStrict(st) ==
    LET d == st.debtors[st.i]
        c == st.creditors[st.j]
        x == Least(d.balance_ore, c.balance_ore)
    IN  [debtors |-> [st.debtors EXCEPT ![st.i].balance_ore = d.balance_ore - x],
         creditors |-> [st.creditors EXCEPT ![st.j].balance_ore = c.balance_ore - x],
         i |-> IF d.balance_ore - x < 0 THEN st.i + 1 ELSE st.i,
         j |-> IF c.balance_ore - x < 0 THEN st.j + 1 ELSE st.j,
         lines |-> st.lines]

\* one pass through the body of the while loop
LoopBody(st) ==
    LET d == st.debtors[st.i]
        c == st.creditors[st.j]
        x == Least(d.balance_ore, c.balance_ore)
        line == IF x > 0
                THEN <<[from |-> d.display_name, to |-> c.display_name,
                        amount_ore |-> x]>>
                ELSE <<>>
        dLeft == d.balance_ore - x
        cLeft == c.balance_ore - x
    IN  [debtors |-> [st.debtors EXCEPT ![st.i].balance_ore = dLeft],
         creditors |-> [st.creditors EXCEPT ![st.j].balance_ore = cLeft],
         i |-> IF dLeft <= 0 THEN st.i + 1 ELSE st.i,
         j |-> IF cLeft <= 0 THEN st.j + 1 ELSE st.j,
         lines |-> st.lines \o line]

\* the while loop of computeSettlements: the result holds the lines pushed and
\* the two arrays as the loop leaves them
RECURSIVE Match(_)
Match(st) == IF LoopGuard(st) THEN Match(LoopBody(st)) ELSE st

SettleReversed(bs) == Match(LoopStart(Creditors(bs), Debtors(bs))).lines
computeSettlements(bs) == Match(LoopStart(Debtors(bs), Creditors(bs))).lines

\* the array bs as its owner sees it once computeSettlements(bs) has returned:
\* an object of bs that the loop wrote to holds what the loop left in it
Written(bs) ==
    LET end == Match(LoopStart(Debtors(bs), Creditors(bs)))
        touched(k) == {e \in Range(end.debtors) \cup Range(end.creditors) : e.of = k}
    IN  [k \in DOMAIN bs |->
            IF touched(k) = {} THEN bs[k]
            ELSE [bs[k] EXCEPT !.balance_ore = (CHOOSE e \in touched(k) : TRUE).balance_ore]]

\* the render evaluates useMemo balances
ComputeBalances ==
    /\ ecAlive
    /\ ecPc = "ready"
    /\ memo = "none"
    /\ balances' = Balances
    /\ memo' = "balances"
    /\ UNCHANGED <<settlements, shopVars, pantryVars, lifeVars, todoVars, ecoVars, evVars>>

\* the render evaluates useMemo settlements
ComputeSettlements ==
    /\ memo = "balances"
    /\ settlements' = computeSettlements(balances)
    /\ balances' = Written(balances)
    /\ memo' = "settlements"
    /\ UNCHANGED <<shopVars, pantryVars, lifeVars, todoVars, ecoVars, evVars>>

\* the memoised values are computed a second time from the same members and
\* expenses
Recompute ==
    /\ memo = "settlements"
    /\ settlements' = computeSettlements(Balances)
    /\ balances' = Written(Balances)
    /\ memo' = "again"
    /\ UNCHANGED <<shopVars, pantryVars, lifeVars, todoVars, ecoVars, evVars>>

SettleNext ==
    \/ ComputeBalances
    \/ ComputeSettlements
    \/ Recompute

SpecSettle == SettleInit /\ [][SettleNext]_vars

----------------------------------------------------------------------------
(* ShoppingPage: moveToPantry.  The view is mounted and loaded; the member
   moves records of the shopping list to the pantry while the change channels
   of both tables reload the two local collections. *)

\* String.prototype.toLowerCase on the letters used here
LowerOf(c) == IF c = "A" THEN "a" ELSE c

\* norm(s): s.trim().toLowerCase()
norm(s) == [k \in DOMAIN Trim(s) |-> LowerOf(Trim(s)[k])]

\* useMemo pantryNameSet: new Set(pantry.map((p) => norm(p.name)))
pantryNameSet == {norm(pantry[k].name) : k \in DOMAIN pantry}

\* the rows of shopping_items: two spellings of one name
MoveRows ==
    [i \in 1 .. InitItems |->
        [id |-> ServerId(i), text |-> IF i % 2 = 1 THEN <<"a">> ELSE <<"A">>,
         checked |-> FALSE]]

\* the rows of pantry_items: none, or the name already there
MovePantries ==
    {<<>>, <<[id |-> ServerId(1), name |-> <<"A">>, qty |-> None, unit |-> None]>>}

MoveInit ==
    /\ userId = Uid
    /\ householdId = Hid
    /\ loading = FALSE
    /\ initPc = "ready"
    /\ chShop = TRUE
    /\ shopping = MoveRows
    /\ msg = Null
    /\ ops = [s \in Slots |-> Idle]
    /\ remote = MoveRows
    /\ nextTemp = 0
    /\ nextId = InitItems
    /\ notif = 0
    /\ nops = 0
    /\ serverIdOf = [n \in 1 .. MaxOps |-> NoId]
    /\ resolved = {}
    /\ confirmed = {}
    /\ loaded = <<>>
    /\ last = Step("Init", Idle)
    /\ pantry \in MovePantries
    /\ remotePantry = pantry
    /\ timers = {}
    /\ pantryTimers = [id \in PantryIds |-> 0]
    /\ nextTimer = 0
    /\ upd = {}
    /\ pnotif = 0
    /\ nedits = 0
    /\ dirty = [id \in PantryIds |-> {}]
    /\ burst = [id \in PantryIds |-> <<>>]
    /\ issued = [id \in PantryIds |-> <<>>]
    /\ alive = TRUE
    /\ chPantry = TRUE
    /\ OuterIdle

MoveShopRest == <<userId, householdId, loading, initPc, chShop, nextTemp, serverIdOf,
                  resolved, confirmed, loaded>>
MovePantryRest == <<pantry, timers, pantryTimers, nextTimer, upd, nedits, dirty, burst,
                    issued>>

\* moveToPantry up to its first await
MoveToPantry(i) ==
    /\ alive
    /\ ~loading
    /\ HasFree
    /\ nops < MaxOps
    /\ userId # Null
    /\ householdId # Null
    /\ Trim(shopping[i].text) # <<>>
    /\ nops' = nops + 1
    /\ LET o == [Idle EXCEPT !.kind = "move",
                             !.stage = IF norm(Trim(shopping[i].text)) \in pantryNameSet
                                       THEN "delete_sent" ELSE "insert_sent",
                             !.item = shopping[i], !.snap = shopping]
       IN /\ ops' = Touch(Free, o, FALSE)
          /\ last' = Step("MoveToPantry", o)
    /\ msg' = Null
    /\ shopping' = RemoveApply(shopping, shopping[i])
    /\ UNCHANGED <<remote, nextId, notif, remotePantry, pnotif>>
    /\ UNCHANGED <<MoveShopRest, MovePantryRest, lifeVars, outerVars>>

\* the store executes insert({ household_id, name, qty: null, unit: null, created_by })
MoveServerInsert(s) ==
    /\ ops[s].kind = "move"
    /\ ops[s].stage = "insert_sent"
    /\ \/ /\ remotePantry' = Append(remotePantry,
                                    [id |-> ServerId(nextId + 1), name |-> Trim(ops[s].item.text),
                                     qty |-> None, unit |-> None])
          /\ nextId' = nextId + 1
          /\ chPantry => pnotif < MaxNotif
          /\ pnotif' = IF chPantry THEN pnotif + 1 ELSE pnotif
          /\ ops' = [ops EXCEPT ![s] = [@ EXCEPT !.stage = "insert_resp", !.ok = TRUE,
                                                 !.ids = {ServerId(nextId + 1)}]]
       \/ /\ ops' = [ops EXCEPT ![s] = [@ EXCEPT !.stage = "insert_resp", !.ok = FALSE]]
          /\ UNCHANGED <<remotePantry, nextId, pnotif>>
    /\ last' = Step("Server", Idle)
    /\ UNCHANGED <<shopping, msg, remote, notif, nops>>
    /\ UNCHANGED <<MoveShopRest, MovePantryRest, lifeVars, outerVars>>

\* moveToPantry after the insert: throw into the catch, or go on to the delete
MoveInsertDone(s) ==
    /\ ops[s].kind = "move"
    /\ ops[s].stage = "insert_resp"
    /\ IF ops[s].ok
          THEN /\ ops' = [ops EXCEPT ![s] = [@ EXCEPT !.stage = "delete_sent"]]
               /\ UNCHANGED <<msg, shopping>>
          ELSE /\ msg' = Rejected
               /\ shopping' = RemoveRollback(shopping, ops[s].snap)
               /\ ops' = Touch(s, Idle, FALSE)
    /\ last' = Step("MoveInsertDone", ops[s])
    /\ UNCHANGED <<remote, nextId, notif, nops, remotePantry, pnotif>>
    /\ UNCHANGED <<MoveShopRest, MovePantryRest, lifeVars, outerVars>>

\* the store executes delete().eq("id", item.id) on shopping_items
MoveServerDelete(s) ==
    /\ ops[s].kind = "move"
    /\ ops[s].stage = "delete_sent"
    /\ \/ /\ ops' = [ops EXCEPT ![s] = [@ EXCEPT !.stage = "resp", !.ok = FALSE]]
          /\ UNCHANGED <<remote, notif>>
       \/ IF ops[s].item.id \in Ids(remote)
             THEN /\ CanEmit
                  /\ remote' = RemoveApply(remote, ops[s].item)
                  /\ notif' = Emit
                  /\ ops' = [ops EXCEPT ![s] = [@ EXCEPT !.stage = "resp", !.ok = TRUE,
                                                         !.data = <<ops[s].item>>]]
             ELSE /\ ops' = [ops EXCEPT ![s] = [@ EXCEPT !.stage = "resp", !.ok = TRUE]]
                  /\ UNCHANGED <<remote, notif>>
    /\ last' = Step("Server", Idle)
    /\ UNCHANGED <<shopping, msg, nextId, nops, remotePantry, pnotif>>
    /\ UNCHANGED <<MoveShopRest, MovePantryRest, lifeVars, outerVars>>

\* moveToPantry after the delete
MoveDone(s) ==
    /\ ops[s].kind = "move"
    /\ ops[s].stage = "resp"
    /\ IF ops[s].ok
          THEN UNCHANGED <<msg, shopping>>
          ELSE /\ msg' = Rejected
               /\ shopping' = RemoveRollback(shopping, ops[s].snap)
    /\ ops' = Touch(s, Idle, FALSE)
    /\ last' = Step("MoveDone", ops[s])
    /\ UNCHANGED <<remote, nextId, notif, nops, remotePantry, pnotif>>
    /\ UNCHANGED <<MoveShopRest, MovePantryRest, lifeVars, outerVars>>

MoveNext ==
    \/ \E i \in DOMAIN shopping : MoveToPantry(i)
    \/ \E s \in Slots : MoveServerInsert(s)
    \/ \E s \in Slots : MoveInsertDone(s)
    \/ \E s \in Slots : MoveServerDelete(s)
    \/ \E s \in Slots : MoveDone(s)
    \/ NotifyDeliver
    \/ \E s \in Slots : ServerSelect(s)
    \/ \E s \in Slots : LoadDone(s)
    \/ PantryNotify
    \/ \E u \in upd : ServerPantrySelect(u)
    \/ \E u \in upd : PantryLoadDone(u)

SpecMove == MoveInit /\ [][MoveNext]_vars

----------------------------------------------------------------------------
(* TasksEventsPage: the events section.  A start time is a string; the client
   writes it with Date.toISOString (suffix Z), the store returns a timestamptz
   (suffix +00:00), and both orders compare the instants the strings denote.
   Field notes is edited as field title is and is left out. *)

Instants == 1 .. MaxInstant

\* fromLocalInputValue(local): new Date(local).toISOString()
fromLocalInputValue(t) == [t |-> t, zone |-> "Z"]
\* the value of a timestamptz column as the store returns it
Stored(s) == [t |-> s.t, zone |-> "+00:00"]
\* +new Date(starts_at)
Time(s) == s.t

\* a patch holds one field; the other one is not part of the object
Patches ==
    {[field |-> "starts_at", title |-> "", starts_at |-> fromLocalInputValue(t)] : t \in Instants}
        \cup {[field |-> "title", title |-> "b", starts_at |-> fromLocalInputValue(0)]}

\* { ...x, ...patch }
Patched(x, patch) ==
    IF patch.field = "starts_at" THEN [x EXCEPT !.starts_at = patch.starts_at]
    ELSE [x EXCEPT !.title = patch.title]

\* what the store keeps of a row after update(patch)
StoredPatched(x, patch) ==
    IF patch.field = "starts_at" THEN [x EXCEPT !.starts_at = Stored(patch.starts_at)]
    ELSE [x EXCEPT !.title = patch.title]

\* .sort((a, b) => +new Date(a.starts_at) - +new Date(b.starts_at)): stable, ascending
RECURSIVE InsertByStart(_, _)
InsertByStart(sorted, e) ==
    IF sorted = <<>> THEN <<e>>
    ELSE IF Time(Head(sorted).starts_at) <= Time(e.starts_at)
         THEN <<Head(sorted)>> \o InsertByStart(Tail(sorted), e)
         ELSE <<e>> \o sorted

RECURSIVE SortByStart(_)
SortByStart(q) ==
    IF q = <<>> THEN <<>>
    ELSE InsertByStart(SortByStart(SubSeq(q, 1, Len(q) - 1)), q[Len(q)])

\* .order("starts_at", { ascending: true }): the rows in an ascending order
Ordered(rows) ==
    {q \in [1 .. Cardinality(rows) -> rows] :
        /\ \A a, b \in DOMAIN q : a # b => q[a] # q[b]
        /\ \A a, b \in DOMAIN q : a < b => Time(q[a].starts_at) <= Time(q[b].starts_at)}

NoEvent == [id |-> Null, title |-> "", starts_at |-> fromLocalInputValue(0)]
NoReq == [n |-> 0, kind |-> "select", stage |-> "sent", ok |-> TRUE, id |-> Null,
          row |-> NoEvent, patch |-> NoPatch, snap |-> <<>>, data |-> <<>>]

\* a change notification is emitted; the channel delivers at most MaxEvNotif late ones
EvEmit == IF evNotif < MaxEvNotif THEN evNotif + 1 ELSE evNotif

\* the page is mounted, init() has reached loadAll(hid) and the select is on its way
EventsInit ==
    /\ ShopAbsent
    /\ TodosAbsent
    /\ EcoAbsent
    /\ events = <<>>
    /\ evMsg = Null
    /\ eventTimers = [id \in EventIds |-> NoPatch]
    /\ evReqs = {NoReq}
    /\ evSeq = 1
    /\ evOps = 0
    /\ evNotif = 0
    /\ evNextId = EventItems
    /\ remoteEvents = {[id |-> ServerId(k), title |-> "a",
                         starts_at |-> Stored(fromLocalInputValue(k))] : k \in 1 .. EventItems}
    /\ evLast = [act |-> "none", moved |-> FALSE]

EvRest == <<shopVars, pantryVars, lifeVars, todoVars, ecoVars, settleVars>>

\* the store answers a select of important_events
EvServerSelect(r) ==
    /\ r.kind = "select" /\ r.stage = "sent"
    /\ \/ \E q \in Ordered(remoteEvents) :
             evReqs' = (evReqs \ {r}) \cup {[r EXCEPT !.stage = "resp", !.ok = TRUE, !.data = q]}
       \/ evReqs' = (evReqs \ {r}) \cup {[r EXCEPT !.stage = "resp", !.ok = FALSE]}
    /\ UNCHANGED <<events, evMsg, eventTimers, evSeq, evOps, evNotif, evNextId,
                   remoteEvents, evLast>>
    /\ UNCHANGED EvRest

\* loadEvents after its await
LoadEventsDone(r) ==
    /\ r.kind = "select" /\ r.stage = "resp"
    /\ evReqs' = evReqs \ {r}
    /\ IF r.ok
       THEN events' = r.data /\ UNCHANGED evMsg
       ELSE evMsg' = "error" /\ UNCHANGED events
    /\ evLast' = [act |-> IF r.ok THEN "reload" ELSE "reload_failed", moved |-> FALSE]
    /\ UNCHANGED <<eventTimers, evSeq, evOps, evNotif, evNextId, remoteEvents>>
    /\ UNCHANGED EvRest

\* the channel ae:events:hid delivers a change: () => loadEvents(hid)
EventsNotify ==
    /\ evNotif > 0
    /\ evNotif' = evNotif - 1
    /\ evReqs' = evReqs \cup {[NoReq EXCEPT !.n = evSeq]}
    /\ evSeq' = evSeq + 1
    /\ UNCHANGED <<events, evMsg, eventTimers, evOps, evNextId, remoteEvents, evLast>>
    /\ UNCHANGED EvRest

\* addEvent with no start time chosen
AddEventNoStart ==
    /\ evOps < MaxEvOps
    /\ evOps' = evOps + 1
    /\ evMsg' = "choose"
    /\ evLast' = [act |-> "add_refused", moved |-> FALSE]
    /\ UNCHANGED <<events, eventTimers, evReqs, evSeq, evNotif, evNextId, remoteEvents>>
    /\ UNCHANGED EvRest

\* setEvents((prev) => [...prev, row].sort(...))
AddApply(prev, row) == SortByStart(Append(prev, row))

\* addEvent up to its await
AddEvent(t) ==
    /\ evOps < MaxEvOps
    /\ LET row == [id |-> TempId(evOps + 1), title |-> "a",
                   starts_at |-> fromLocalInputValue(t)]
       IN  /\ events' = AddApply(events, row)
           /\ evReqs' = evReqs \cup {[NoReq EXCEPT !.n = evSeq, !.kind = "insert",
                                                   !.id = row.id, !.row = row]}
           /\ evLast' = [act |-> "add", moved |-> events' # Append(events, row)]
    /\ evMsg' = Null
    /\ evSeq' = evSeq + 1
    /\ evOps' = evOps + 1
    /\ UNCHANGED <<eventTimers, evNotif, evNextId, remoteEvents>>
    /\ UNCHANGED EvRest

\* the store executes insert(...).select("id,title,starts_at,notes").single()
EvServerInsert(r) ==
    /\ r.kind = "insert" /\ r.stage = "sent"
    /\ \/ LET row == [id |-> ServerId(evNextId + 1), title |-> r.row.title,
                      starts_at |-> Stored(r.row.starts_at)]
          IN  /\ remoteEvents' = remoteEvents \cup {row}
              /\ evNextId' = evNextId + 1
              /\ evNotif' = EvEmit
              /\ evReqs' = (evReqs \ {r}) \cup {[r EXCEPT !.stage = "resp", !.ok = TRUE, !.row = row]}
       \/ /\ evReqs' = (evReqs \ {r}) \cup {[r EXCEPT !.stage = "resp", !.ok = FALSE]}
          /\ UNCHANGED <<remoteEvents, evNextId, evNotif>>
    /\ UNCHANGED <<events, evMsg, eventTimers, evSeq, evOps, evLast>>
    /\ UNCHANGED EvRest

\* setEvents((prev) => prev.filter((x) => x.id !== tempId))
EventAddRollback(prev, tempId) == LET keep(x) == x.id # tempId IN SelectSeq(prev, keep)

\* setEvents((prev) => prev.map((x) => (x.id === tempId ? data : x)).sort(...))
EventAddReplace(prev, tempId, row) ==
    SortByStart([k \in DOMAIN prev |-> IF prev[k].id = tempId THEN row ELSE prev[k]])

\* addEvent after its await
AddEventDone(r) ==
    /\ r.kind = "insert" /\ r.stage = "resp"
    /\ evReqs' = evReqs \ {r}
    /\ IF r.ok
       THEN /\ events' = EventAddReplace(events, r.id, r.row)
            /\ UNCHANGED evMsg
       ELSE /\ events' = EventAddRollback(events, r.id)
            /\ evMsg' = "error"
    /\ evLast' = [act |-> IF r.ok THEN "reconcile" ELSE "add_failed",
                  moved |-> r.id \in Ids(events)]
    /\ UNCHANGED <<eventTimers, evSeq, evOps, evNotif, evNextId, remoteEvents>>
    /\ UNCHANGED EvRest

\* a patch that leaves the records where they are
PatchInPlace(prev, id, patch) ==
    [k \in DOMAIN prev |-> IF prev[k].id = id THEN Patched(prev[k], patch) ELSE prev[k]]

\* setEvents((prev) => prev.map((x) => (x.id === id ? { ...x, ...patch } : x)).sort(...))
PatchApply(prev, id, patch) ==
    SortByStart([k \in DOMAIN prev |-> IF prev[k].id = id THEN Patched(prev[k], patch) ELSE prev[k]])

\* scheduleEventPatch(id, patch), from the onChange of a rendered record
ScheduleEventPatch(i, patch) ==
    /\ evOps < MaxEvOps
    /\ evOps' = evOps + 1
    /\ events' = PatchApply(events, events[i].id, patch)
    /\ eventTimers' = [eventTimers EXCEPT ![events[i].id] = patch]
    /\ evLast' = [act |-> "patch_" \o patch.field,
                  moved |-> [k \in DOMAIN events |-> events[k].id]
                               # [k \in DOMAIN events' |-> events'[k].id]]
    /\ UNCHANGED <<evMsg, evReqs, evSeq, evNotif, evNextId, remoteEvents>>
    /\ UNCHANGED EvRest

\* the timeout of scheduleEventPatch runs, 400 ms after the latest call for id
EventTimerFires(id) ==
    /\ eventTimers[id] # NoPatch
    /\ eventTimers' = [eventTimers EXCEPT ![id] = NoPatch]
    /\ evReqs' = evReqs \cup {[NoReq EXCEPT !.n = evSeq, !.kind = "update", !.id = id,
                                            !.patch = eventTimers[id]]}
    /\ evSeq' = evSeq + 1
    /\ UNCHANGED <<events, evMsg, evOps, evNotif, evNextId, remoteEvents, evLast>>
    /\ UNCHANGED EvRest

\* the store executes update(patch).eq("id", id)
EvServerUpdate(r) ==
    /\ r.kind = "update" /\ r.stage = "sent"
    /\ \/ /\ remoteEvents' = {IF x.id = r.id THEN StoredPatched(x, r.patch) ELSE x : x \in remoteEvents}
          /\ evNotif' = IF r.id \in {x.id : x \in remoteEvents} THEN EvEmit ELSE evNotif
          /\ evReqs' = (evReqs \ {r}) \cup {[r EXCEPT !.stage = "resp", !.ok = TRUE]}
       \/ /\ evReqs' = (evReqs \ {r}) \cup {[r EXCEPT !.stage = "resp", !.ok = FALSE]}
          /\ UNCHANGED <<remoteEvents, evNotif>>
    /\ UNCHANGED <<events, evMsg, eventTimers, evSeq, evOps, evNextId, evLast>>
    /\ UNCHANGED EvRest

\* the timeout callback after its await
EventPatchDone(r) ==
    /\ r.kind = "update" /\ r.stage = "resp"
    /\ evReqs' = evReqs \ {r}
    /\ evMsg' = IF r.ok THEN evMsg ELSE "error"
    /\ UNCHANGED <<events, eventTimers, evSeq, evOps, evNotif, evNextId, remoteEvents, evLast>>
    /\ UNCHANGED EvRest

\* removeEvent up to its await
RemoveEvent(i) ==
    /\ evOps < MaxEvOps
    /\ evOps' = evOps + 1
    /\ evMsg' = Null
    /\ events' = EventAddRollback(events, events[i].id)
    /\ evReqs' = evReqs \cup {[NoReq EXCEPT !.n = evSeq, !.kind = "delete",
                                            !.id = events[i].id, !.snap = events]}
    /\ evSeq' = evSeq + 1
    /\ evLast' = [act |-> "remove", moved |-> FALSE]
    /\ UNCHANGED <<eventTimers, evNotif, evNextId, remoteEvents>>
    /\ UNCHANGED EvRest

\* the store executes delete().eq("id", id)
EvServerDelete(r) ==
    /\ r.kind = "delete" /\ r.stage = "sent"
    /\ \/ /\ remoteEvents' = {x \in remoteEvents : x.id # r.id}
          /\ evNotif' = IF r.id \in {x.id : x \in remoteEvents} THEN EvEmit ELSE evNotif
          /\ evReqs' = (evReqs \ {r}) \cup {[r EXCEPT !.stage = "resp", !.ok = TRUE]}
       \/ /\ evReqs' = (evReqs \ {r}) \cup {[r EXCEPT !.stage = "resp", !.ok = FALSE]}
          /\ UNCHANGED <<remoteEvents, evNotif>>
    /\ UNCHANGED <<events, evMsg, eventTimers, evSeq, evOps, evNextId, evLast>>
    /\ UNCHANGED EvRest

\* removeEvent after its await
RemoveEventDone(r) ==
    /\ r.kind = "delete" /\ r.stage = "resp"
    /\ evReqs' = evReqs \ {r}
    /\ IF r.ok
       THEN UNCHANGED <<events, evMsg>>
       ELSE events' = r.snap /\ evMsg' = "error"
    /\ evLast' = [act |-> IF r.ok THEN "removed" ELSE "remove_rollback",
                  moved |-> ~r.ok /\ events # r.snap]
    /\ UNCHANGED <<eventTimers, evSeq, evOps, evNotif, evNextId, remoteEvents>>
    /\ UNCHANGED EvRest

EventsNext ==
    \/ \E r \in evReqs : EvServerSelect(r)
    \/ \E r \in evReqs : LoadEventsDone(r)
    \/ EventsNotify
    \/ AddEventNoStart
    \/ \E t \in Instants : AddEvent(t)
    \/ \E r \in evReqs : EvServerInsert(r)
    \/ \E r \in evReqs : AddEventDone(r)
    \/ \E i \in DOMAIN events, patch \in Patches : ScheduleEventPatch(i, patch)
    \/ \E id \in EventIds : EventTimerFires(id)
    \/ \E r \in evReqs : EvServerUpdate(r)
    \/ \E r \in evReqs : EventPatchDone(r)
    \/ \E i \in DOMAIN events : RemoveEvent(i)
    \/ \E r \in evReqs : EvServerDelete(r)
    \/ \E r \in evReqs : RemoveEventDone(r)

SpecEvents == EventsInit /\ [][EventsNext]_vars

----------------------------------------------------------------------------
(* Steps, as seen from the suspended operations *)

Started(s, k) == ops[s].kind = "idle" /\ ops'[s].kind = k
Finished(s, k) == ops[s].kind = k /\ ops[s].stage = "resp" /\ ops'[s].kind = "idle"

\* the sequence q without its k-th element
Without(q, k) == SubSeq(q, 1, k - 1) \o SubSeq(q, k + 1, Len(q))

\* every id the client has seen so far
KnownIds ==
    Ids(shopping) \cup Ids(remote) \cup resolved
        \cup UNION {Ids(ops[s].snap) \cup {ops[s].item.id} : s \in Slots}

----------------------------------------------------------------------------
(* Optimistic create *)

CreateAppends(s) ==
    LET rec == ops'[s].item IN
    /\ IsTemp(rec.id)
    /\ rec.id \notin KnownIds
    /\ Len(shopping') = Len(shopping) + 1
    /\ \E k \in DOMAIN shopping' : shopping'[k] = rec /\ Without(shopping', k) = shopping

CreateResolves(s) ==
    IF ops[s].ok
    THEN /\ Len(shopping') = Len(shopping)
         /\ \E k \in DOMAIN shopping :
              /\ shopping[k].id = ops[s].item.id
              /\ shopping'[k].id = serverIdOf[TempNo(ops[s].item.id)]
              /\ shopping'[k].id = ops[s].data[1].id
              /\ Without(shopping', k) = Without(shopping, k)
    ELSE shopping' = ops[s].pre

\* C1: a create adds exactly one record with a fresh temporary id before the
\* insert resolves; with no other operation interleaved, success turns that
\* record's id into the id the store returned, the length unchanged, and
\* failure returns the collection to its pre-create contents.
C1_OptimisticCreate ==
    [][\A s \in Slots :
         /\ Started(s, "add") => CreateAppends(s)
         /\ (Finished(s, "add") /\ ops[s].clean) => CreateResolves(s)]_vars

C1_Witness ==
    /\ last.act = "AddDone"
    /\ last.ok
    /\ last.clean
    /\ \E n \in 1 .. MaxOps : serverIdOf[n] \in Ids(shopping)

----------------------------------------------------------------------------
(* Remove and its rollback *)

\* C2: a remove whose remote delete fails leaves the local collection equal to
\* the collection as it was before the removal, same records, same order.
C2_RollbackOnDeleteFailure ==
    [][\A s \in Slots :
         (Finished(s, "remove") /\ ~ops[s].ok) => shopping' = ops[s].snap]_vars

C2_Witness ==
    /\ last.act = "RemoveDone"
    /\ ~last.ok
    /\ Len(shopping) >= 2

\* C3: a record whose delete was confirmed is never brought back by the
\* rollback of another remove.
C3_RollbackKeepsConfirmedDeletes ==
    [][\A s \in Slots :
         (Finished(s, "remove") /\ ~ops[s].ok)
             => (Ids(shopping') \cap confirmed) \subseteq Ids(shopping)]_vars

\* C4: once a reload has replaced the collection, the completion of an
\* operation that was in flight when the reload resolved overwrites no record
\* that the reload delivered.
C4_ReloadWins ==
    [][\A s \in Slots :
         ((Finished(s, "remove") \/ Finished(s, "clear") \/ Finished(s, "toggle"))
             /\ ops[s].stale)
             => \A r \in Range(shopping) \cap Range(loaded) : r \in Range(shopping')]_vars

----------------------------------------------------------------------------
(* Temporary ids *)

\* C5: the collection never holds both the temporary-id record of a create and
\* the record the store returned for that create.
C5_TempNeverWithDurable ==
    \A n \in 1 .. MaxOps :
        ~(TempId(n) \in Ids(shopping) /\ serverIdOf[n] \in Ids(shopping))

\* the durable record arrived through a reload while the insert is unresolved
C5_Witness ==
    \E n \in 1 .. MaxOps :
        /\ serverIdOf[n] \in Ids(shopping)
        /\ TempId(n) \notin resolved
        /\ \E s \in Slots : ops[s].kind = "add" /\ ops[s].item.id = TempId(n)

\* C6: once the insert of a create has resolved, its temporary id is never in
\* the collection again.
C6_ResolvedTempNeverBack ==
    \A t \in resolved : t \notin Ids(shopping)

----------------------------------------------------------------------------
(* Reload *)

TempRecords(q) == {q[i] : i \in {j \in DOMAIN q : IsTemp(q[j].id)}}

\* C7: reload replaces the collection with the fresh read for every id in the
\* read and leaves the local-only temporary-id records in place.
C7_ReloadKeepsTemps ==
    [][\A s \in Slots :
         (Finished(s, "load") /\ ops[s].ok)
             => /\ \A r \in Range(ops[s].data) : r \in Range(shopping')
                /\ TempRecords(shopping) \subseteq Range(shopping')]_vars

\* C7 as amended: reload replaces the whole collection with exactly the fresh
\* read; temporary-id records, which are not in the read, are dropped.
C7_ReloadReplacesAll ==
    [][\A s \in Slots :
         (Finished(s, "load") /\ ops[s].ok)
             => /\ shopping' = ops[s].data
                /\ TempRecords(shopping') = {}]_vars

\* a reload has just dropped the record of a create that is still in flight
C7_Witness ==
    /\ last.act = "LoadDone"
    /\ last.ok
    /\ \E s \in Slots : /\ ops[s].kind = "add"
                        /\ ops[s].item.id \notin Ids(shopping)
                        /\ ops[s].item.id \notin resolved

----------------------------------------------------------------------------
(* Debounced edits *)

SameField(b) == \A k \in DOMAIN b : DOMAIN b[k] = DOMAIN b[1]

\* C8: calls for one record that each arrive while the timer of the previous
\* call is pending issue no remote update until the last timer fires, and then
\* exactly one, carrying the patch of the last call.
C8_DebounceCoalescing ==
    \A id \in PantryIds :
        burst[id] # <<>> =>
            IF BurstOpen(id)
            THEN issued[id] = <<>>
            ELSE issued[id] = <<burst[id][Len(burst[id])]>>

\* two calls on the same field were coalesced into one update
C8_Witness ==
    \E id \in PantryIds :
        /\ Len(burst[id]) >= 2
        /\ SameField(burst[id])
        /\ burst[id][1] # burst[id][Len(burst[id])]
        /\ ~BurstOpen(id)
        /\ Len(issued[id]) = 1

\* the request a firing timer has just issued
Fired(t, u) == t \in timers /\ t \notin timers' /\ u \in upd' /\ u \notin upd /\ u.h = t.h

\* C9: the update a firing timer issues carries every field of the record
\* changed locally since the last remote write, with its current local value.
C9_PatchRecomputedAtFire ==
    [][\A t \in timers : \A u \in upd' :
         (Fired(t, u) /\ t.id \in Ids(pantry))
             => \A f \in dirty[t.id] :
                   f \in DOMAIN u.patch /\ u.patch[f] = Row(pantry, t.id)[f]]_vars

\* C10: when the remote write of an update fails, the fields it changed are
\* back at their pre-patch values, everything else is as it was, and the error
\* is recorded.
C10_FailedUpdateReverts ==
    [][\A u \in upd :
         (u.kind = "update" /\ u.stage = "resp" /\ ~u.ok /\ u \notin upd'
                /\ u.id \in Ids(pantry))
             => /\ msg' = Rejected
                /\ Ids(pantry') = Ids(pantry)
                /\ \A f \in DOMAIN u.patch : Row(pantry', u.id)[f] = u.before[f]
                /\ \A k \in DOMAIN pantry :
                     \A f \in DOMAIN pantry[k] :
                        (pantry[k].id # u.id \/ f \notin DOMAIN u.patch)
                            => pantry'[k][f] = pantry[k][f]]_vars

----------------------------------------------------------------------------
(* Teardown and pending writes *)

\* C11: the cleanup of the mount effect cancels every pending timer, and once
\* it has run no debounced remote update is issued.
C11_NoUpdateAfterTeardown ==
    [][/\ (alive /\ ~alive') => timers' = {}
       /\ ~alive => \A u \in upd' \ upd : u.kind # "update"]_vars

\* the remote writes of a record that are scheduled or in flight
PendingWrites(id) ==
    {t.h : t \in {x \in timers : x.id = id}}
        \cup {u.h : u \in {x \in upd : x.kind = "update" /\ x.id = id}}

\* C12: at most one remote write per record id is pending, scheduled or in
\* flight, at any time.
C12_OnePendingWritePerRecord ==
    \A id \in PantryIds : Cardinality(PendingWrites(id)) <= 1

----------------------------------------------------------------------------
(* bulkRemove *)

\* the sequence q without the records whose id is in ids
Minus(q, ids) == LET keep(x) == x.id \notin ids IN Filter(q, keep)

\* the store has just executed the delete of operation s
Executed(s, k) == ops[s].kind = k /\ ops[s].stage = "sent" /\ ops'[s].stage = "resp"

----------------------------------------------------------------------------
(* Change subscriptions *)

\* C14: a view holds at most one open subscription per table and household,
\* and once the view is torn down none of its subscriptions is open, however
\* the teardown interleaves with the asynchronous init() that subscribes.
C14_SubscriptionClosedAtTeardown ==
    /\ tdSubs <= 1
    /\ ~tdMounted => tdSubs = 0

----------------------------------------------------------------------------
(* Overlapping reloads *)

NoLoadInFlight == \A s \in Slots : ops[s].kind # "load"

\* C15: when the last of several overlapping reloads has resolved, the
\* collection is the read of the reload that resolved last, whatever the order
\* in which the reloads were started and the store answered them.
C15_LastResolvedReloadWins ==
    (last.act = "LoadDone" /\ last.ok /\ NoLoadInFlight) => shopping = loaded

\* a reload that another reload overtook has resolved last: its older read is
\* the collection although every change was announced and every announced
\* reload has resolved
C15_Witness ==
    /\ last.act = "LoadDone"
    /\ last.ok
    /\ last.stale
    /\ \A s \in Slots : ops[s].kind = "idle"
    /\ notif = 0
    /\ shopping = loaded
    /\ shopping # remote

----------------------------------------------------------------------------
(* Failures of the remote store *)

\* the failed request r resolves; the two loads of init() count as one call,
\* whose failure is the first of the two
FailureResolves(r) ==
    /\ r.stage = "resp"
    /\ ~r.ok
    /\ r \notin ecReqs'
    /\ r.init => ecPc = "loads"

\* C16: when a failed create, remove or reload resolves, also a reload that a
\* change notification started, the last-error observable holds that
\* failure's message and no error is left unhandled.
C16_FailureBecomesLastError ==
    [][\A r \in ecReqs :
         FailureResolves(r) => (ecMsg' = Rejected /\ unhandled' = unhandled)]_vars

----------------------------------------------------------------------------
(* The last-error observable *)

Mutations == {"add", "toggle", "remove", "clear"}

\* this step is the successful completion of a mutation
Succeeds == \E s \in Slots : \E k \in Mutations : Finished(s, k) /\ ops[s].ok

\* C17: the successful completion of an action leaves the last error empty,
\* and nothing but a successful completion clears a recorded error.
C17_SuccessClearsLastError ==
    [][/\ Succeeds => msg' = Null
       /\ (msg # Null /\ msg' = Null) => Succeeds]_vars

----------------------------------------------------------------------------
(* Preconditions *)

\* this step is a mutation handler called with a non-empty input
Mutates ==
    last'.act \in {"AddNoop", "AddShopping", "ToggleShopping", "RemoveShopping",
                   "ClearNoop", "ClearChecked"}

\* C18: a mutation called while the user id or the household id is not set
\* issues no remote call, leaves the collection unchanged and leaves the
\* message of the failed precondition in the last-error observable.
C18_PreconditionNoop ==
    [][((userId = Null \/ householdId = Null) /\ Mutates)
          => /\ ops' = ops
             /\ shopping' = shopping
             /\ msg' \in {NotLoggedIn, NoHousehold}]_vars

----------------------------------------------------------------------------
(* Consistency at rest *)

\* the view is mounted and subscribed, nothing is in flight, no timer is
\* pending, every notification was delivered and every reload has resolved
Quiescent ==
    /\ alive
    /\ initPc = "ready"
    /\ \A s \in Slots : ops[s].kind = "idle"
    /\ notif = 0
    /\ timers = {}
    /\ upd = {}
    /\ pnotif = 0

\* C19: at rest the local collections equal the store's collections of the
\* household, record for record and field for field.
C19_ConsistentAtRest ==
    Quiescent => (shopping = remote /\ pantry = remotePantry)

\* the sum of the amounts of the ledger entries at the positions I
RECURSIVE LedgerSum(_)
LedgerSum(I) ==
    IF I = {} THEN 0
    ELSE LET k == CHOOSE k \in I : TRUE
         IN  expenses[k].amount_ore + LedgerSum(I \ {k})

PaidBy(uid) == LedgerSum({k \in DOMAIN expenses : expenses[k].paid_by = uid})

\* b is an integer nearest to paid - total / n
Nearest(b, paid, total, n) ==
    /\ 2 * n * b - n <= 2 * (n * paid - total)
    /\ 2 * (n * paid - total) <= 2 * n * b + n

\* members [X, Y] and the single expense of 1000 paid by X
TwoMembersOneExpense ==
    /\ members = <<MemberPool[1], MemberPool[2]>>
    /\ Len(expenses) = 1
    /\ expenses[1].paid_by = Uid
    /\ expenses[1].amount_ore = 1000

\* C20: for every roster of N >= 1 members and every ledger, the balances list
\* the members in roster order and each balance is the integer nearest to
\* paid - total / N, paid being the sum of the entries the member paid and total
\* the sum of all entries; members [X, Y] with one expense of 1000 paid by X get
\* +500 and -500 and the single transfer of 500 from Y to X.
C20_BalanceIsRoundedShare ==
    /\ (memo # "none" /\ Len(members) >= 1) =>
          /\ Len(balances) = Len(members)
          /\ \A k \in DOMAIN members :
                /\ balances[k].user_id = members[k].user_id
                /\ Nearest(balances[k].balance_ore, PaidBy(members[k].user_id),
                           LedgerSum(DOMAIN expenses), Len(members))
    /\ (memo # "none" /\ TwoMembersOneExpense) =>
          /\ balances[1].balance_ore = 500
          /\ balances[2].balance_ore = -500
    /\ (memo = "settlements" /\ TwoMembersOneExpense) =>
          settlements = <<[from |-> <<"Y">>, to |-> <<"X">>, amount_ore |-> 500]>>

C20_Witness ==
    /\ memo = "settlements"
    /\ TwoMembersOneExpense
    /\ Len(balances) = 2
    /\ Len(settlements) = 1


\* the sum of f over the positions I
RECURSIVE Total(_, _)
Total(f, I) ==
    IF I = {} THEN 0
    ELSE LET k == CHOOSE k \in I : TRUE
         IN  f[k] + Total(f, I \ {k})

LineAmounts == [k \in DOMAIN settlements |-> settlements[k].amount_ore]

\* what the member shown as name has been told to pay, and to receive, by the
\* first n transfer lines (the display names of a roster are distinct)
SentBy(name, n) == Total(LineAmounts, {k \in 1 .. n : settlements[k].from = name})
ReceivedBy(name, n) == Total(LineAmounts, {k \in 1 .. n : settlements[k].to = name})

\* the debt and the credit the balances give the member shown as name
DebtOf(name) ==
    Total([k \in DOMAIN balances |-> -balances[k].balance_ore],
          {k \in DOMAIN balances : balances[k].display_name = name
                                   /\ balances[k].balance_ore < 0})
CreditOf(name) ==
    Total([k \in DOMAIN balances |-> balances[k].balance_ore],
          {k \in DOMAIN balances : balances[k].display_name = name
                                   /\ balances[k].balance_ore > 0})

\* C21: every transfer line has an amount > 0 that is at most what its debtor
\* still owes and what its creditor is still owed when the line is emitted, so
\* no member's remaining balance crosses zero.
C21_LineWithinRemaining ==
    memo = "settlements" =>
        \A n \in DOMAIN settlements :
            /\ settlements[n].amount_ore > 0
            /\ SentBy(settlements[n].from, n) <= DebtOf(settlements[n].from)
            /\ ReceivedBy(settlements[n].to, n) <= CreditOf(settlements[n].to)

\* a creditor is paid by two debtors, or a debtor pays two creditors
C21_Witness ==
    /\ memo = "settlements"
    /\ Len(settlements) >= 2
    /\ \E n \in DOMAIN settlements :
          \/ settlements[n].amount_ore < CreditOf(settlements[n].to)
          \/ settlements[n].amount_ore < DebtOf(settlements[n].from)

BalanceSum == Total([k \in DOMAIN balances |-> balances[k].balance_ore], DOMAIN balances)

\* what is left of the k-th balance once every transfer line has been paid
Residual(k) ==
    balances[k].balance_ore
        - ReceivedBy(balances[k].display_name, Len(settlements))
        + SentBy(balances[k].display_name, Len(settlements))

\* C22: when the balances sum to zero, paying every transfer line leaves every
\* member's balance at exactly zero.
C22_PlanZeroesBalances ==
    (memo = "settlements" /\ BalanceSum = 0) =>
        \A k \in DOMAIN balances : Residual(k) = 0

\* balances that sum to zero and need more than one transfer
C22_Witness ==
    /\ memo = "settlements"
    /\ BalanceSum = 0
    /\ Len(settlements) >= 2
    /\ \A k \in DOMAIN balances : Residual(k) = 0

Abs(n) == IF n < 0 THEN -n ELSE n

\* every ledger entry was paid by a member of the roster
PayersInRoster ==
    \A k \in DOMAIN expenses :
        \E m \in DOMAIN members : members[m].user_id = expenses[k].paid_by

\* C23: for a roster of N >= 1 members and a ledger whose payers are all in the
\* roster, the balances sum to at most N - 1 in magnitude, and what the transfer
\* plan leaves unsettled, for each member and in total, is at most N in magnitude.
C23_RoundingSlackBounded ==
    (memo # "none" /\ Len(members) >= 1 /\ PayersInRoster) =>
        /\ Abs(BalanceSum) <= Len(members) - 1
        /\ memo = "settlements" =>
              /\ \A k \in DOMAIN balances : Abs(Residual(k)) <= Len(members)
              /\ Abs(Total([k \in DOMAIN balances |-> Residual(k)], DOMAIN balances))
                     <= Len(members)

\* a total that does not divide evenly: the balances do not sum to zero and the
\* plan leaves a member unsettled
C23_Witness ==
    /\ memo = "settlements"
    /\ Len(members) >= 2
    /\ PayersInRoster
    /\ BalanceSum # 0
    /\ \E k \in DOMAIN balances : Residual(k) # 0

AllEven == \A k \in DOMAIN balances : balances[k].balance_ore = 0

\* members [X, Y], each having paid one expense of 500
EachPaidHalf ==
    /\ members = <<MemberPool[1], MemberPool[2]>>
    /\ Len(expenses) = 2
    /\ {expenses[1].paid_by, expenses[2].paid_by} = {Uid, OtherUid}
    /\ expenses[1].amount_ore = 500
    /\ expenses[2].amount_ore = 500

\* C24: with no members the balances and the transfer plan are empty; with a
\* total of zero, and with [X, Y] each having paid 500, every balance is zero;
\* whenever every balance is zero the transfer plan is empty.
C24_DegenerateInputs ==
    /\ (memo # "none" /\ Len(members) = 0) => balances = <<>>
    /\ (memo = "settlements" /\ Len(members) = 0) => settlements = <<>>
    /\ (memo # "none" /\ LedgerSum(DOMAIN expenses) = 0) => AllEven
    /\ (memo # "none" /\ EachPaidHalf) => (Len(balances) = 2 /\ AllEven)
    /\ (memo = "settlements" /\ AllEven) => settlements = <<>>

C24_Witness ==
    /\ memo = "settlements"
    /\ EachPaidHalf
    /\ Len(balances) = 2
    /\ AllEven
    /\ settlements = <<>>

\* C25: with a roster of exactly one member, that member's balance is zero and
\* the transfer plan is empty, for every ledger.
C25_SingleMemberEven ==
    (memo # "none" /\ Len(members) = 1) =>
        /\ Len(balances) = 1
        /\ balances[1].balance_ore = 0
        /\ memo = "settlements" => settlements = <<>>

\* the member at roster position p paid every entry of a ledger that is not empty
\* and whose total the member count divides
SolePayer(p) ==
    /\ Len(expenses) >= 1
    /\ \A k \in DOMAIN expenses : expenses[k].paid_by = members[p].user_id
    /\ LedgerSum(DOMAIN expenses) % Len(members) = 0

\* C26: when one member paid the whole total and the member count N divides it,
\* the plan has exactly N - 1 lines, one from each other member to the payer, each
\* of total / N, and the line amounts sum to the payer's credit.
C26_SolePayerPlan ==
    memo = "settlements" =>
        \A p \in DOMAIN members :
            SolePayer(p) =>
                /\ Len(settlements) = Len(members) - 1
                /\ \A n \in DOMAIN settlements :
                      /\ settlements[n].to = balances[p].display_name
                      /\ settlements[n].amount_ore
                             = LedgerSum(DOMAIN expenses) \div Len(members)
                /\ {settlements[n].from : n \in DOMAIN settlements}
                       = {balances[k].display_name : k \in DOMAIN balances \ {p}}
                /\ Total(LineAmounts, DOMAIN settlements) = balances[p].balance_ore

\* [X, Y, Z] with 900 paid by X: two lines of 300 to X
C26_Witness ==
    /\ memo = "settlements"
    /\ members = <<MemberPool[1], MemberPool[2], MemberPool[3]>>
    /\ Len(expenses) = 1
    /\ expenses[1].paid_by = Uid
    /\ expenses[1].amount_ore = 900
    /\ Len(settlements) = 2
    /\ \A n \in DOMAIN settlements :
          settlements[n].amount_ore = 300 /\ settlements[n].to = <<"X">>

\* C27: computing the balances and the transfer lines a second time from the same
\* members and expenses gives the same balances and the same lines in the same
\* order, and computeSettlements leaves the balances it is given as they were.
C27_SettlementIsPure ==
    [][/\ (memo = "balances" /\ memo' = "settlements") => balances' = balances
       /\ (memo = "settlements" /\ memo' = "again") =>
             /\ balances' = balances
             /\ settlements' = settlements]_vars

\* the second computation has run on balances the loop had to count down
C27_Witness ==
    /\ memo = "again"
    /\ Len(settlements) >= 2
    /\ balances = Balances

\* the positions of the local expenses whose create the store has confirmed
Reconciled == {k \in DOMAIN expenses : ~IsTemp(expenses[k].id)}

\* C28: the balances and the transfer lines a render derives are those of the
\* reconciled expenses: an expense that still carries a temporary id contributes
\* to no balance and to no transfer line.
C28_SettlesReconciledOnly ==
    Len(members) >= 1 =>
        /\ \A k \in DOMAIN members :
              Nearest(Balances[k].balance_ore,
                      LedgerSum({e \in Reconciled :
                                    expenses[e].paid_by = members[k].user_id}),
                      LedgerSum(Reconciled), Len(members))
        /\ Reconciled = {} => computeSettlements(Balances) = <<>>

\* C29: no step changes the payer, amount or title of an expense that is in the
\* local collection; a record enters it only as a fresh optimistic record
\* (create), as the row an insert returned (reconciliation), as a row a select
\* returned (reload) or from the snapshot of a rejected delete, and otherwise
\* records only leave it.
C29_NoEditInPlace ==
    [][/\ \A a \in Range(expenses), b \in Range(expenses') : a.id = b.id => a = b
       /\ \A b \in Range(expenses') \ Range(expenses) :
             \/ IsTemp(b.id) /\ b.id \notin Ids(expenses)
             \/ \E r \in ecReqs : r.stage = "resp" /\ r.ok /\ b \in Range(r.data)
             \/ \E r \in ecReqs : r.kind = "delete" /\ r.stage = "resp" /\ ~r.ok
                                  /\ b \in Range(r.snap)]_vars

\* a create has been reconciled next to an expense that was already there
C29_Witness ==
    /\ ecOps >= 1
    /\ ecReqs = {}
    /\ Len(expenses) = 2
    /\ Reconciled = DOMAIN expenses
    /\ expenses[2] = InitExpenses[1]

\* C30: no update or delete is sent to the store with a temporary id as its
\* target: the record of a toggle or a remove, and every id of a bulk remove,
\* carries an id the store has issued.
C30_NoTempIdTarget ==
    \A s \in Slots :
        /\ ops[s].kind \in {"toggle", "remove"} => ~IsTemp(ops[s].item.id)
        /\ ops[s].kind = "clear" => \A id \in ops[s].ids : ~IsTemp(id)

----------------------------------------------------------------------------
(* Creates in flight *)

\* C31: a create whose insert failed removes the record carrying its own
\* temporary id and nothing else: every other record of the collection as it is
\* when the failure resolves stays, unchanged and in the same order.
C31_FailedCreateDropsOwnRecord ==
    [][\A s \in Slots :
         (Finished(s, "add") /\ ~ops[s].ok) =>
             IF ops[s].item.id \in Ids(shopping)
             THEN \E k \in DOMAIN shopping :
                     /\ shopping[k].id = ops[s].item.id
                     /\ shopping' = Without(shopping, k)
             ELSE shopping' = shopping]_vars

\* a failed create has resolved after other steps had changed the collection
C31_Witness ==
    /\ last.act = "AddDone"
    /\ ~last.ok
    /\ ~last.clean
    /\ shopping # <<>>
    /\ shopping # remote

\* C32: a successful insert replaces the record carrying its own temporary id
\* with the row the store returned for it and leaves every other record, the
\* record of another create in flight included, where and as it is, whatever the
\* order of the responses and also when the two creates have the same content.
C32_CreateReplacesOwnRecord ==
    [][\A s \in Slots :
         (Finished(s, "add") /\ ops[s].ok) =>
             /\ Len(shopping') = Len(shopping)
             /\ \A k \in DOMAIN shopping :
                   IF shopping[k].id = ops[s].item.id
                   THEN /\ shopping'[k] = ops[s].data[1]
                        /\ shopping'[k].id = serverIdOf[ops[s].item.id[2]]
                   ELSE shopping'[k] = shopping[k]]_vars

\* two creates with the same text were in flight together; the second has
\* resolved first and the record of the first still carries its temporary id
C32_Witness ==
    /\ last.act = "AddDone"
    /\ last.ok
    /\ \E s \in Slots, k, j \in DOMAIN shopping :
          /\ ops[s].kind = "add"
          /\ ops[s].item.id = TempId(1)
          /\ shopping[k] = ops[s].item
          /\ shopping[j].id = serverIdOf[2]
          /\ shopping[j].text = ops[s].item.text

----------------------------------------------------------------------------
(* Toggles *)

\* C33: once every write of a series of toggles has resolved, with no reload in
\* between, each item's local checked flag is the flag the store holds for it,
\* whatever the order and the outcomes of the writes.
C33_TogglesConverge ==
    (initPc = "ready" /\ \A s \in Slots : ops[s].kind = "idle") =>
        \A k \in DOMAIN shopping, j \in DOMAIN remote :
            shopping[k].id = remote[j].id => shopping[k].checked = remote[j].checked

----------------------------------------------------------------------------
(* The loop of computeSettlements *)

\* the loop state after n passes through the body, from st
RECURSIVE After(_, _)
After(st, n) == IF n = 0 THEN st ELSE After(LoopBody(st), n - 1)

\* the number of passes the loop makes from st, counted up to fuel + 1
RECURSIVE Passes(_, _)
Passes(st, fuel) ==
    IF ~LoopGuard(st) THEN 0
    ELSE IF fuel = 0 THEN 1
    ELSE 1 + Passes(LoopBody(st), fuel - 1)

LoopOfBalances == LoopStart(Debtors(balances), Creditors(balances))
Parties == Len(Debtors(balances)) + Len(Creditors(balances))

\* every pass from the balances moves past at least one debtor or creditor, and
\* the loop stops exactly when one of the two lists is exhausted, having pushed
\* the transfer lines
Advances(n) ==
    /\ \A m \in 0 .. n - 1 :
          LET a == After(LoopOfBalances, m)
              b == LoopBody(a)
          IN  /\ a.i <= Len(a.debtors) /\ a.j <= Len(a.creditors)
              /\ b.i \in {a.i, a.i + 1}
              /\ b.j \in {a.j, a.j + 1}
              /\ b.i + b.j > a.i + a.j
    /\ n <= Parties =>
          LET e == After(LoopOfBalances, n)
          IN  /\ e.i = Len(e.debtors) + 1 \/ e.j = Len(e.creditors) + 1
              /\ memo = "settlements" => settlements = e.lines

\* C34: the loop of computeSettlements terminates for every list of balances:
\* every pass moves past at least one debtor or creditor, the loop stops as soon
\* as one of the two lists is exhausted, and it makes at most
\* (debtors + creditors - 1) passes.
C34_LoopBound ==
    memo \in {"balances", "settlements"} =>
        /\ Passes(LoopOfBalances, Parties) <= Parties - 1
        /\ Advances(Passes(LoopOfBalances, Parties))

\* C34 as amended: the same, with at most (debtors + creditors - 1) passes when
\* there are debtors and creditors, and no pass when either list is empty.
C34_LoopTerminates ==
    memo \in {"balances", "settlements"} =>
        LET n == Passes(LoopOfBalances, Parties)
        IN  /\ IF Debtors(balances) # <<>> /\ Creditors(balances) # <<>>
                  THEN n <= Parties - 1
                  ELSE n = 0
            /\ Advances(n)

\* three parties and two passes: the bound is reached
C34_Witness ==
    /\ memo = "settlements"
    /\ Parties = 3
    /\ Passes(LoopOfBalances, Parties) = 2
    /\ Len(settlements) = 2

----------------------------------------------------------------------------
(* The order of the transfer lines *)

\* the roster position of the member shown as name
PositionOf(name) == CHOOSE k \in DOMAIN balances : balances[k].display_name = name

\* the member at position k comes before the member at position m among the
\* debtors (the creditors): a larger debt (credit) first, roster order for equals
Magnitude(k) == Abs(balances[k].balance_ore)
Before(k, m) == Magnitude(k) > Magnitude(m) \/ (Magnitude(k) = Magnitude(m) /\ k < m)

DebtorPositions == {k \in DOMAIN balances : balances[k].balance_ore < 0}
CreditorPositions == {k \in DOMAIN balances : balances[k].balance_ore > 0}

\* C35: creditors are taken in descending order of balance and debtors in
\* descending order of debt, equal balances in roster order: the first transfer
\* line goes from the first debtor to the first creditor of those orders, and
\* from one line to the next neither the debtor nor the creditor moves backwards.
C35_LinesFollowSortedOrder ==
    memo = "settlements" =>
        /\ settlements # <<>> =>
              /\ PositionOf(settlements[1].from) \in DebtorPositions
              /\ PositionOf(settlements[1].to) \in CreditorPositions
              /\ \A k \in DebtorPositions : ~Before(k, PositionOf(settlements[1].from))
              /\ \A k \in CreditorPositions : ~Before(k, PositionOf(settlements[1].to))
        /\ \A n \in 1 .. Len(settlements) - 1 :
              /\ ~Before(PositionOf(settlements[n + 1].from), PositionOf(settlements[n].from))
              /\ ~Before(PositionOf(settlements[n + 1].to), PositionOf(settlements[n].to))

\* two members with equal balances on one side, each with a line of its own
C35_Witness ==
    /\ memo = "settlements"
    /\ Len(settlements) = 2
    /\ \E k, m \in DOMAIN balances :
          /\ k < m
          /\ balances[k].balance_ore = balances[m].balance_ore
          /\ balances[k].balance_ore # 0
          /\ {balances[k].display_name, balances[m].display_name}
                 \in {{settlements[1].from, settlements[2].from},
                      {settlements[1].to, settlements[2].to}}

----------------------------------------------------------------------------
(* The shape of a transfer plan.  A line names its two members by display
   name; the display names of a roster are pairwise different. *)

Senders == {settlements[k].from : k \in DOMAIN settlements}
Receivers == {settlements[k].to : k \in DOMAIN settlements}

\* no member on both sides, senders owe and receivers are owed, no pair twice
SidesApart ==
    /\ Senders \cap Receivers = {}
    /\ \A k \in DOMAIN settlements :
          /\ \E m \in DebtorPositions : balances[m].display_name = settlements[k].from
          /\ \E m \in CreditorPositions : balances[m].display_name = settlements[k].to
    /\ \A k, m \in DOMAIN settlements :
          (settlements[k].from = settlements[m].from /\ settlements[k].to = settlements[m].to)
              => k = m

\* the statement with the bound debtors + creditors - 1 on the number of lines
C36_PlanShape ==
    memo = "settlements" =>
        /\ SidesApart
        /\ Len(settlements) <= Parties - 1

\* C36: in every transfer plan no member is both a sender and a receiver, only
\* members with a negative balance send and only members with a positive balance
\* receive, and no (sender, receiver) pair occurs in two lines; with at least
\* one debtor and one creditor the plan has at most debtors + creditors - 1
\* lines, and it has no line when there is no debtor or no creditor.
C36_PlanShapeBounded ==
    memo = "settlements" =>
        /\ SidesApart
        /\ IF DebtorPositions # {} /\ CreditorPositions # {}
           THEN Len(settlements) <= Parties - 1
           ELSE settlements = <<>>

\* one member pays two others: the bound is reached
C36_Witness ==
    /\ memo = "settlements"
    /\ Len(settlements) = Parties - 1
    /\ Cardinality(Senders) + Cardinality(Receivers) = 3
    /\ \E k, m \in DOMAIN settlements : k # m /\ settlements[k].from = settlements[m].from

----------------------------------------------------------------------------
(* The order of the local events *)

----------------------------------------------------------------------------
(* moveToPantry *)

\* the step in which the move of slot s ends
MoveEnds(s) == ops[s].kind = "move" /\ ops'[s].kind = "idle"

\* the rows of the pantry table that carry the name of item, normalised
Namesakes(rows, item) == {k \in DOMAIN rows : norm(rows[k].name) = norm(item.text)}

\* C38: moveToPantry is all-or-nothing.  When it ends in failure the local
\* shopping collection is its contents from before the move and the store holds
\* no pantry row inserted by the move and has deleted no shopping row for it;
\* when it succeeds the item is absent from the local shopping list and its
\* normalised name is in the remote pantry exactly once.
C38_MoveAllOrNothing ==
    [][\A s \in Slots :
          MoveEnds(s) =>
              IF ops[s].ok
              THEN /\ ops[s].item.id \notin Ids(shopping')
                   /\ Cardinality(Namesakes(remotePantry', ops[s].item)) = 1
              ELSE /\ shopping' = ops[s].snap
                   /\ ops[s].ids \cap Ids(remotePantry') = {}
                   /\ ops[s].data = <<>>]_vars

TypeOK ==
    /\ nextTemp \in 0 .. MaxOps
    /\ nops \in 0 .. MaxOps
    /\ notif \in 0 .. MaxNotif
    /\ \A i \in DOMAIN shopping : shopping[i].checked \in BOOLEAN

====
